---- MODULE Spec2Model ----
(***************************************************************************)
(* Ledger import and aggregation of libro_caja_peniel.                     *)
(*                                                                         *)
(* A JavaScript string is modelled as a sequence of one-character strings  *)
(* (one element per UTF-16 code unit), so that length, substring search,   *)
(* trimming and case folding are computed, not assumed.                    *)
(*                                                                         *)
(* The number parseFloat reads from a cell is kept as the exact decimal    *)
(* it denotes (sign, mantissa, scale). The amounts the ledger adds up are  *)
(* IEEE 754 binary64 numbers, and + and - round to nearest, ties to even,  *)
(* as they do in JavaScript.                                               *)
(***************************************************************************)
EXTENDS Integers, Sequences, FiniteSets, TLC

VARIABLES
    text,        \* parseCSVLine: the line handed to the tokenizer
    delimiter,   \* parseCSVLine: the delimiter handed to the tokenizer
    result,      \* parseCSVLine: the returned field list, or Pending
    amountCell,  \* amount decoder: the trimmed cell cols[idxAmount]
    amount,      \* amount decoder: the decoded number, or Pending
    movementTypes, \* the movement-type catalog (props.movementTypes)
    rawTypeDesc, \* classifier: the type-description text of a row
    matchedType, \* classifier: the entry found, NoType, or Pending
    centers,     \* the center catalog (props.centers)
    csvText,     \* the content of the file the user selects, as its lines
    today,       \* new Date().toISOString().split('T')[0]
    uuidCount,   \* number of values crypto.randomUUID() has returned
    reading,     \* number of FileReader reads whose onload has not run yet
    runs,        \* the completed parseSheetCSV runs, oldest first
    transactions, \* App: the transactions delivered by the subscription
    activeTab,   \* App: the tab whose view is mounted
    listView,    \* TransactionList: the view and content filters (the
                 \* ones it mounts with while another tab is active)
    dashView,    \* Dashboard: the filter and chart state (likewise)
    viewChanges, \* number of filter changes made so far
    pdfModal,    \* TransactionList: isPdfModalOpen and pdfTargetMonth
    report,      \* what the last step left for the user: nothing, an
                 \* alert, or the document generatePDF saved
    decoderCall, \* row decoders: the step of parseSheetCSV applied and
                 \* the values it is applied to
    decoderResult, \* row decoders: the value the step gives, or Pending
    currencies,  \* App: the configured currency codes (app_config/main)
    form,        \* TransactionForm: its state while it is mounted
    writes,      \* the transaction documents written to the store, each
                 \* with the currency codes configured when it was written
    memo,        \* the values the useMemo hooks of the mounted view hold
    docs,        \* the transactions collection of the store and the calls
                 \* made of readAsText and of batch.commit
    session,     \* App: currentUser, the runs of the data-listeners effect
                 \* and the Firestore subscriptions they opened
    users        \* the users collection, the list MasterData renders and
                 \* the deletions under way

tokVars == <<text, delimiter, result>>
amtVars == <<amountCell, amount>>
clsVars == <<rawTypeDesc, matchedType>>
impVars == <<centers, csvText, today, uuidCount, reading, runs>>
ledVars == <<transactions, activeTab, listView, dashView, viewChanges,
             pdfModal, report>>
decVars == <<decoderCall, decoderResult>>
stoVars == <<currencies, form, writes>>
catVars == <<memo>>
docVars == <<docs>>
sesVars == <<session>>
usrVars == <<users>>
vars == <<text, delimiter, result, amountCell, amount, movementTypes,
          rawTypeDesc, matchedType, centers, csvText, today, uuidCount,
          reading, runs, transactions, activeTab, listView, dashView,
          viewChanges, pdfModal, report, decoderCall, decoderResult,
          currencies, form, writes, memo, docs, session, users>>

\* Value of a variable that the specification at hand does not use.
Unused == [kind |-> "unused"]

TokenizerIdle == text = Unused /\ delimiter = Unused /\ result = Unused
AmountIdle == amountCell = Unused /\ amount = Unused
ClassifierIdle == rawTypeDesc = Unused /\ matchedType = Unused
ImportIdle ==
    /\ centers = Unused
    /\ csvText = Unused
    /\ today = Unused
    /\ uuidCount = 0
    /\ reading = 0
    /\ runs = <<>>
LedgerIdle ==
    /\ transactions = Unused
    /\ activeTab = Unused
    /\ listView = Unused
    /\ dashView = Unused
    /\ viewChanges = 0
    /\ pdfModal = Unused
    /\ report = Unused
DecoderIdle == decoderCall = Unused /\ decoderResult = Unused
StoreIdle == currencies = Unused /\ form = Unused /\ writes = <<>>
CatalogIdle == memo = Unused
DocsIdle == docs = Unused
SessionIdle == session = Unused
UsersIdle == users = Unused

\* A call that has not returned yet, and the value a call returned.
Pending == [kind |-> "pending"]
Returned(v) == [kind |-> "returned", value |-> v]

-----------------------------------------------------------------------------
(* Bounds of the model *)

MaxLineLen == 4
MaxAmountLen == 4
MaxNameLen == 2
MaxTextLen == 3
MaxTypes == 2
MaxRows == 2
MaxImports == 2
MaxTx == 3
MaxViewChanges == 2
MaxCellLen == 4
MaxHeaders == 3
MaxCurrencies == 2
MaxWrites == 2
MaxLogins == 2
MaxUsers == 3

\* Characters the tokenizer is exercised on: an ordinary character, both
\* delimiters and the double quote.
TokAlphabet == {"a", ",", ";", "\""}

\* The two lines the specification quotes:  a,"b,c",d  and  a,"b""c",d
ExampleLineQuotedDelimiter == <<"a", ",", "\"", "b", ",", "c", "\"", ",", "d">>
ExampleLineDoubledQuote == <<"a", ",", "\"", "b", "\"", "\"", "c", "\"", ",", "d">>

-----------------------------------------------------------------------------
(* Generic sequence helpers *)

StringsUpTo(alphabet, n) == UNION {[1..k -> alphabet] : k \in 0..n}

\* Recursion on a string is kept shallow (halving, or position arithmetic
\* instead of a character-by-character descent): lines are 50 characters long.

FirstWhere(str, P(_)) ==
    CHOOSE i \in 1..Len(str) : P(str[i]) /\ \A j \in 1..(i - 1) : ~P(str[j])

LastWhere(str, P(_)) ==
    CHOOSE i \in 1..Len(str) : P(str[i]) /\ \A j \in (i + 1)..Len(str) : ~P(str[j])

Exists(str, P(_)) == \E i \in 1..Len(str) : P(str[i])

\* Concatenation of a sequence of strings
RECURSIVE Flatten(_)
Flatten(ss) ==
    IF Len(ss) = 0 THEN <<>>
    ELSE IF Len(ss) = 1 THEN ss[1]
    ELSE LET half == Len(ss) \div 2
         IN Flatten(SubSeq(ss, 1, half)) \o Flatten(SubSeq(ss, half + 1, Len(ss)))

\* str.replace(/[chars]/g, '')
RemoveAll(str, chars) == SelectSeq(str, LAMBDA c : c \notin chars)

\* String.prototype.replace(from, to) with a string pattern: the first
\* occurrence only.
ReplaceFirst(str, from, to) ==
    IF Exists(str, LAMBDA c : c = from)
    THEN LET at == FirstWhere(str, LAMBDA c : c = from)
         IN SubSeq(str, 1, at - 1) \o <<to>> \o SubSeq(str, at + 1, Len(str))
    ELSE str

ReplaceEvery(str, from, to) ==
    SubSeq([i \in 1..Len(str) |-> IF str[i] = from THEN to ELSE str[i]],
           1, Len(str))

Includes(str, c) == \E i \in 1..Len(str) : str[i] = c

\* str.includes(sub) for strings
IncludesStr(str, sub) ==
    \E k \in 0..(Len(str) - Len(sub)) :
        \A j \in 1..Len(sub) : str[k + j] = sub[j]

StartsWith(str, prefix) ==
    /\ Len(str) >= Len(prefix)
    /\ \A j \in 1..Len(prefix) : str[j] = prefix[j]

Drop(str, n) == SubSeq(str, n + 1, Len(str))

RECURSIVE Pow10(_)
Pow10(n) == IF n = 0 THEN 1 ELSE 10 * Pow10(n - 1)

-----------------------------------------------------------------------------
(* Numbers: the value of parseFloat *)

DigitChars == {"0", "1", "2", "3", "4", "5", "6", "7", "8", "9"}

DigitVal(c) ==
    CASE c = "0" -> 0 [] c = "1" -> 1 [] c = "2" -> 2 [] c = "3" -> 3
      [] c = "4" -> 4 [] c = "5" -> 5 [] c = "6" -> 6 [] c = "7" -> 7
      [] c = "8" -> 8 [] c = "9" -> 9

\* Length of the longest prefix of str made of digits.
DigitPrefixLen(str) ==
    IF Exists(str, LAMBDA c : c \notin DigitChars)
    THEN FirstWhere(str, LAMBDA c : c \notin DigitChars) - 1
    ELSE Len(str)

RECURSIVE DigitsToNat(_, _)
DigitsToNat(str, acc) ==
    IF str = <<>> THEN acc
    ELSE DigitsToNat(Tail(str), 10 * acc + DigitVal(Head(str)))

\* A JavaScript number as far as the decoders need it: NaN, an infinity, or
\* the decimal mant / 10^scale with a sign (-0 is kept, as in IEEE 754).
\* Decimal fractions are kept exact; scale is minimal, so that equal numbers
\* are equal records.
NaN == [kind |-> "nan"]
Infinity(neg) == [kind |-> "inf", neg |-> neg]

RECURSIVE Canon(_, _, _)
Canon(neg, mant, scale) ==
    IF mant = 0 THEN [kind |-> "num", neg |-> neg, mant |-> 0, scale |-> 0]
    ELSE IF scale < 0 THEN Canon(neg, mant * 10, scale + 1)
    ELSE IF scale > 0 /\ mant % 10 = 0 THEN Canon(neg, mant \div 10, scale - 1)
    ELSE [kind |-> "num", neg |-> neg, mant |-> mant, scale |-> scale]

isNaN(x) == x.kind = "nan"

\* Mutant: no amount is taken for zero.
IsZeroNever(x) == FALSE

IsZero(x) == x.kind = "num" /\ x.mant = 0
MathAbs(x) == IF x.kind = "nan" THEN x ELSE [x EXCEPT !.neg = FALSE]

InfinityWord == <<"I", "n", "f", "i", "n", "i", "t", "y">>

\* The exponent part of a decimal literal at the head of str: <<present,
\* value>>; present only when e/E is followed by an optionally signed digit.
ExponentPart(str) ==
    IF str = <<>> \/ Head(str) \notin {"e", "E"} THEN <<FALSE, 0>>
    ELSE LET afterE == Tail(str)
             signed == afterE # <<>> /\ Head(afterE) \in {"+", "-"}
             digitsAt == IF signed THEN Tail(afterE) ELSE afterE
             n == DigitPrefixLen(digitsAt)
             v == DigitsToNat(SubSeq(digitsAt, 1, n), 0)
         IN IF n = 0 THEN <<FALSE, 0>>
            ELSE <<TRUE, IF signed /\ Head(afterE) = "-" THEN 0 - v ELSE v>>

\* parseFloat(str): the longest prefix of str that is a decimal literal
\* (sign, digits, optional fraction, optional exponent) or Infinity; NaN
\* when there is none. (Leading white space is absent where it is called.)
parseFloat(str) ==
    LET signed == str # <<>> /\ Head(str) \in {"+", "-"}
        neg == signed /\ Head(str) = "-"
        body == IF signed THEN Tail(str) ELSE str
        nInt == DigitPrefixLen(body)
        afterInt == Drop(body, nInt)
        hasPoint == afterInt # <<>> /\ Head(afterInt) = "."
        nFrac == IF hasPoint THEN DigitPrefixLen(Tail(afterInt)) ELSE 0
        afterFrac == IF hasPoint THEN Drop(afterInt, 1 + nFrac) ELSE afterInt
        digits == SubSeq(body, 1, nInt)
                      \o (IF hasPoint THEN SubSeq(afterInt, 2, 1 + nFrac) ELSE <<>>)
        expo == ExponentPart(afterFrac)
    IN IF StartsWith(body, InfinityWord) THEN Infinity(neg)
       ELSE IF nInt + nFrac = 0 THEN NaN
       ELSE Canon(neg, DigitsToNat(digits, 0), nFrac - expo[2])

-----------------------------------------------------------------------------
(* Amount decoder: TransactionList.tsx parseSheetCSV, step "1. Amount" *)

WhiteSpace == {" ", "\t"}

\* cols[idxAmount] || '0' : an absent (Undefined) or empty cell gives "0"
\* (undefined is kept apart from every string: its one element is no character)
Undefined == <<"<undefined>">>
OrDefault(cell, default) ==
    IF cell = Undefined \/ cell = <<>> THEN default ELSE cell

\* Mutant: the decimal comma is turned into a point before the thousands
\* points are removed.
DecodeAmountCommaFirst(cell) ==
    LET rawAmount == RemoveAll(OrDefault(cell, <<"0">>), {"$"} \cup WhiteSpace)
    IN IF Includes(rawAmount, ",") /\ Includes(rawAmount, ".")
       THEN parseFloat(RemoveAll(ReplaceFirst(rawAmount, ",", "."), {"."}))
       ELSE IF Includes(rawAmount, ",")
       THEN parseFloat(ReplaceFirst(rawAmount, ",", "."))
       ELSE parseFloat(rawAmount)

DecodeAmount(cell) ==
    LET rawAmount == RemoveAll(OrDefault(cell, <<"0">>), {"$"} \cup WhiteSpace)
    IN IF Includes(rawAmount, ",") /\ Includes(rawAmount, ".")
       THEN parseFloat(ReplaceFirst(RemoveAll(rawAmount, {"."}), ",", "."))
       ELSE IF Includes(rawAmount, ",")
       THEN parseFloat(ReplaceFirst(rawAmount, ",", "."))
       ELSE parseFloat(rawAmount)

-----------------------------------------------------------------------------
(* Text normalizer: TransactionList.tsx normalize *)

\* Letters with their lower-case forms. An accented letter is one code unit
\* when precomposed; its canonical decomposition (NFD) is the base letter
\* followed by a combining mark of the range U+0300..U+036F.
UpperLetters ==
    <<"A", "B", "C", "D", "E", "F", "G", "H", "I", "J", "K", "L", "M", "N",
      "O", "P", "Q", "R", "S", "T", "U", "V", "W", "X", "Y", "Z",
      "{O-acute}", "{N-tilde}">>
LowerLetters ==
    <<"a", "b", "c", "d", "e", "f", "g", "h", "i", "j", "k", "l", "m", "n",
      "o", "p", "q", "r", "s", "t", "u", "v", "w", "x", "y", "z",
      "{o-acute}", "{n-tilde}">>

CombiningAcute == "{U+0301}"
CombiningTilde == "{U+0303}"
CombiningMarks == {CombiningAcute, CombiningTilde}

PositionIn(letters, c) == CHOOSE i \in 1..Len(letters) : letters[i] = c

toLowerCaseChar(c) ==
    IF \E i \in 1..Len(UpperLetters) : UpperLetters[i] = c
    THEN LowerLetters[PositionIn(UpperLetters, c)] ELSE c

toUpperCaseChar(c) ==
    IF \E i \in 1..Len(LowerLetters) : LowerLetters[i] = c
    THEN UpperLetters[PositionIn(LowerLetters, c)] ELSE c

MapSeq(f(_), seq) == SubSeq([i \in 1..Len(seq) |-> f(seq[i])], 1, Len(seq))

toLowerCase(str) == MapSeq(toLowerCaseChar, str)
toUpperCase(str) == MapSeq(toUpperCaseChar, str)

\* str.normalize("NFD"), one code unit at a time
DecomposeChar(c) ==
    CASE c = "{o-acute}" -> <<"o", CombiningAcute>>
      [] c = "{O-acute}" -> <<"O", CombiningAcute>>
      [] c = "{n-tilde}" -> <<"n", CombiningTilde>>
      [] c = "{N-tilde}" -> <<"N", CombiningTilde>>
      [] OTHER -> <<c>>

normalizeNFD(str) == Flatten(MapSeq(DecomposeChar, str))

IsBlank(str) == \A i \in 1..Len(str) : str[i] \in WhiteSpace

trimStart(str) ==
    IF IsBlank(str) THEN <<>>
    ELSE SubSeq(str, FirstWhere(str, LAMBDA c : c \notin WhiteSpace), Len(str))

trimEnd(str) ==
    IF IsBlank(str) THEN <<>>
    ELSE SubSeq(str, 1, LastWhere(str, LAMBDA c : c \notin WhiteSpace))

trim(str) == trimEnd(trimStart(str))

\* str.toLowerCase().normalize("NFD").replace(/[U+0300-U+036F]/g, "").trim()
normalize(str) == trim(RemoveAll(normalizeNFD(toLowerCase(str)), CombiningMarks))

-----------------------------------------------------------------------------
(* Movement-type classifier: parseSheetCSV, sortedTypes and "3. Type Mapping" *)

INCOME == "INCOME"
EXPENSE == "EXPENSE"

\* find() that found nothing
NoType == [kind |-> "undefined"]

\* Insert mt into a list sorted by descending name.length, after every entry
\* that is at least as long: Array.prototype.sort is stable.
RECURSIVE InsertByNameLength(_, _)
InsertByNameLength(sorted, mt) ==
    IF sorted = <<>> THEN <<mt>>
    ELSE IF Len(Head(sorted).name) >= Len(mt.name)
         THEN <<Head(sorted)>> \o InsertByNameLength(Tail(sorted), mt)
         ELSE <<mt>> \o sorted

RECURSIVE SortByNameLength(_, _)
SortByNameLength(types, sorted) ==
    IF types = <<>> THEN sorted
    ELSE SortByNameLength(Tail(types), InsertByNameLength(sorted, Head(types)))

\* [...movementTypes].sort((a, b) => b.name.length - a.name.length)
sortedTypes(types) == SortByNameLength(types, <<>>)

\* sortedTypes.find(mt => csvTypeNorm.includes(normalize(mt.name)))
RECURSIVE FindContained(_, _)
FindContained(sorted, csvTypeNorm) ==
    IF sorted = <<>> THEN NoType
    ELSE IF IncludesStr(csvTypeNorm, normalize(Head(sorted).name))
         THEN Head(sorted)
         ELSE FindContained(Tail(sorted), csvTypeNorm)

\* The matchedType of a row whose type description is typeDesc.
Classify(types, typeDesc) ==
    LET csvTypeNorm == normalize(typeDesc)
    IN IF csvTypeNorm # <<>>
       THEN FindContained(sortedTypes(types), csvTypeNorm)
       ELSE NoType

-----------------------------------------------------------------------------
(* Line tokenizer: TransactionList.tsx parseCSVLine *)

Quote == "\""

\* Mutant: the escaped-quote test forgets that a quote must be open.
ParseCSVStepNoEscapeGuard(txt, delim, st) ==
    LET char == txt[st.i] IN
    IF char = Quote
    THEN IF st.i + 1 <= Len(txt) /\ txt[st.i + 1] = Quote
         THEN [st EXCEPT !.current = Append(@, Quote), !.i = @ + 2]
         ELSE [st EXCEPT !.inQuote = ~@, !.i = @ + 1]
    ELSE IF char = delim /\ ~st.inQuote
         THEN [st EXCEPT !.result = Append(@, st.current), !.current = <<>>,
                         !.i = @ + 1]
         ELSE [st EXCEPT !.current = Append(@, char), !.i = @ + 1]

\* One iteration of the for-loop of parseCSVLine, the i++ included. st holds
\* the loop's locals: i (1-based), current, inQuote and result.
ParseCSVStep(txt, delim, st) ==
    LET char == txt[st.i] IN
    IF char = Quote
    THEN IF st.inQuote /\ st.i + 1 <= Len(txt) /\ txt[st.i + 1] = Quote
         THEN [st EXCEPT !.current = Append(@, Quote), !.i = @ + 2]
         ELSE [st EXCEPT !.inQuote = ~@, !.i = @ + 1]
    ELSE IF char = delim /\ ~st.inQuote
         THEN [st EXCEPT !.result = Append(@, st.current), !.current = <<>>,
                         !.i = @ + 1]
         ELSE [st EXCEPT !.current = Append(@, char), !.i = @ + 1]

\* The iterations that start at an index up to until.
RECURSIVE ParseCSVRun(_, _, _, _)
ParseCSVRun(txt, delim, st, until) ==
    IF st.i > until \/ st.i > Len(txt) THEN st
    ELSE ParseCSVRun(txt, delim, ParseCSVStep(txt, delim, st), until)

\* The whole loop and the final result.push(current), eight indexes at a
\* time.
RECURSIVE ParseCSVLoop(_, _, _)
ParseCSVLoop(txt, delim, st) ==
    IF st.i > Len(txt) THEN Append(st.result, st.current)
    ELSE ParseCSVLoop(txt, delim, ParseCSVRun(txt, delim, st, st.i + 7))

parseCSVLine(txt, delim) ==
    ParseCSVLoop(txt, delim,
                 [i |-> 1, current |-> <<>>, inQuote |-> FALSE, result |-> <<>>])

-----------------------------------------------------------------------------
(* Import reconciler: TransactionList.tsx parseSheetCSV *)

\* arr[idx] for a 0-based JavaScript index: undefined outside the array
\* (idx = -1 included).
At(arr, idx) == IF idx + 1 \in 1..Len(arr) THEN arr[idx + 1] ELSE Undefined

\* A value is truthy when it is neither undefined nor the empty string.
Truthy(v) == v # Undefined /\ v # <<>>

\* headers.findIndex(h => h \in names): 0-based, -1 when there is none
findIndex(headers, names) ==
    IF \E i \in 1..Len(headers) : headers[i] \in names
    THEN (CHOOSE i \in 1..Len(headers) :
              /\ headers[i] \in names
              /\ \A j \in 1..(i - 1) : headers[j] \notin names) - 1
    ELSE -1

\* str.split(sep) for a one-character separator: the pieces between
\* consecutive separators
Split(str, sep) ==
    LET seps == {i \in 1..Len(str) : str[i] = sep}
        \* position of the k-th separator; 0 and Len(str) + 1 at the ends
        SepAt(k) == IF k = 0 THEN 0
                    ELSE IF k > Cardinality(seps) THEN Len(str) + 1
                    ELSE CHOOSE i \in seps : Cardinality({j \in seps : j < i}) = k - 1
    IN SubSeq([k \in 1..(Cardinality(seps) + 1) |->
                   SubSeq(str, SepAt(k - 1) + 1, SepAt(k) - 1)],
              1, Cardinality(seps) + 1)

\* str.padStart(2, '0')
RECURSIVE padStart2(_)
padStart2(str) == IF Len(str) >= 2 THEN str ELSE padStart2(<<"0">> \o str)

CountChar(str, c) == Cardinality({i \in 1..Len(str) : str[i] = c})

\* csvText.split(/\r?\n/).filter(l => l.trim() !== '')
NonEmptyLines(csv) == SelectSeq(csv, LAMBDA l : trim(l) # <<>>)

\* Mutant: a tie goes to the comma.
DetectDelimiterTieToComma(firstLine) ==
    IF CountChar(firstLine, ";") > CountChar(firstLine, ",") THEN ";" ELSE ","

\* semiCount >= commaCount ? ';' : ','
DetectDelimiter(firstLine) ==
    IF CountChar(firstLine, ";") >= CountChar(firstLine, ",") THEN ";" ELSE ","

H_fecha ==
    <<"f", "e", "c", "h", "a">>
H_monto ==
    <<"m", "o", "n", "t", "o">>
H_monto2 ==
    <<"m", "o", "n", "t", "o", "2">>
H_detalle ==
    <<"d", "e", "t", "a", "l", "l", "e">>
H_moneda ==
    <<"m", "o", "n", "e", "d", "a">>
H_descripcion_tipo_movimiento ==
    <<"d", "e", "s", "c", "r", "i", "p", "c", "i", "o", "n", "_", "t", "i",
    "p", "o", "_", "m", "o", "v", "i", "m", "i", "e", "n", "t", "o">>
H_tipo_movimiento ==
    <<"t", "i", "p", "o", "_", "m", "o", "v", "i", "m", "i", "e", "n", "t",
    "o">>
H_descripcion ==
    <<"d", "e", "s", "c", "r", "i", "p", "c", "i", "o", "n">>
Str_ARS ==
    <<"A", "R", "S">>
Str_ImportadoDesdeCSV ==
    <<"I", "m", "p", "o", "r", "t", "a", "d", "o", " ", "d", "e", "s", "d",
    "e", " ", "C", "S", "V">>

\* The column indexes of step "3. Find specific columns".
Columns(headers) ==
    LET preferred == findIndex(headers, {H_descripcion_tipo_movimiento})
    IN [idxDate |-> findIndex(headers, {H_fecha}),
        idxAmount |-> findIndex(headers, {H_monto2, H_monto}),
        idxDetail |-> findIndex(headers, {H_detalle}),
        idxCurrency |-> findIndex(headers, {H_moneda}),
        idxTypeDesc |-> IF preferred = -1
                        THEN findIndex(headers, {H_tipo_movimiento, H_descripcion})
                        ELSE preferred]

\* Mutant: day and month are reordered without zero-padding.
DecodeDateUnpadded(cell, now) ==
    IF Truthy(cell) /\ Includes(cell, "/")
    THEN LET parts == Split(cell, "/")
         IN IF Len(parts) = 3
            THEN trim(parts[3]) \o <<"-">> \o trim(parts[2])
                     \o <<"-">> \o trim(parts[1])
            ELSE cell
    ELSE IF ~Truthy(cell) \/ trim(cell) = <<>> THEN now
    ELSE cell

\* Mutant: the date cell is ignored and every row is dated today.
DecodeDateAlwaysToday(cell, now) == now

\* Step "2. Date" of a row.
DecodeDate(cell, now) ==
    IF Truthy(cell) /\ Includes(cell, "/")
    THEN LET parts == Split(cell, "/")
         IN IF Len(parts) = 3
            THEN trim(parts[3]) \o <<"-">> \o padStart2(trim(parts[2]))
                     \o <<"-">> \o padStart2(trim(parts[1]))
            ELSE cell
    ELSE IF ~Truthy(cell) \/ trim(cell) = <<>> THEN now
    ELSE cell

AsciiUpper ==
    {"A", "B", "C", "D", "E", "F", "G", "H", "I", "J", "K", "L", "M", "N",
     "O", "P", "Q", "R", "S", "T", "U", "V", "W", "X", "Y", "Z"}

\* Mutant: the cell is not upper-cased before the letters are kept.
DecodeCurrencyAsWritten(cell) ==
    LET upper == trim(OrDefault(cell, Str_ARS))
        letters == SelectSeq(upper, LAMBDA c : c \in AsciiUpper)
    IN IF letters = <<>> \/ Len(letters) # 3 THEN Str_ARS ELSE letters

\* Step "4. Currency" of a row.
DecodeCurrency(cell) ==
    LET upper == trim(toUpperCase(OrDefault(cell, Str_ARS)))
        letters == SelectSeq(upper, LAMBDA c : c \in AsciiUpper)
    IN IF letters = <<>> \/ Len(letters) # 3 THEN Str_ARS ELSE letters

DefaultCenterId == "default"
UnknownTypeId == "unknown"

\* Mutant: the row goes to the last center of the catalog.
FirstCenterIdLast(cs) ==
    IF Len(cs) >= 1 THEN cs[Len(cs)].id ELSE DefaultCenterId

\* centers[0]?.id || 'default'
FirstCenterId(cs) == IF Len(cs) >= 1 THEN cs[1].id ELSE DefaultCenterId

\* Mutant: a classification miss is always tagged with the sentinel.
TypeIdOfSentinelOnly(matched, types) ==
    IF matched # NoType THEN matched.id ELSE UnknownTypeId

\* matchedType ? matchedType.id : (movementTypes[0]?.id || 'unknown')
TypeIdOf(matched, types) ==
    IF matched # NoType THEN matched.id
    ELSE IF Len(types) >= 1 THEN types[1].id ELSE UnknownTypeId

\* The body of the row loop for one line: Skip when the amount is NaN or
\* zero (the continue), otherwise the transaction pushed, without its id.
Skip == [kind |-> "skip"]

DecodeRow(line, delim, col, types, cs, now) ==
    LET cols == MapSeq(trim, parseCSVLine(line, delim))
        amt == DecodeAmount(At(cols, col.idxAmount))
        typeCell == At(cols, col.idxTypeDesc)
        typeDesc == IF col.idxTypeDesc # -1 /\ Truthy(typeCell)
                    THEN typeCell ELSE <<>>
        detailCell == At(cols, col.idxDetail)
    IN IF isNaN(amt) \/ IsZero(amt) THEN Skip
       ELSE [kind |-> "push",
             date |-> DecodeDate(At(cols, col.idxDate), now),
             centerId |-> FirstCenterId(cs),
             movementTypeId |-> TypeIdOf(Classify(types, typeDesc), types),
             detail |-> IF Truthy(detailCell) THEN detailCell
                        ELSE IF typeDesc # <<>> THEN typeDesc
                        ELSE Str_ImportadoDesdeCSV,
             amount |-> MathAbs(amt),
             currency |-> DecodeCurrency(At(cols, col.idxCurrency))]

\* Mutant: a row that cannot be used discards what was collected before it.
RowStepResetsOnSkip(acc, row, at) ==
    IF row = Skip
    THEN [acc EXCEPT !.newTransactions = <<>>, !.fromLine = <<>>]
    ELSE [acc EXCEPT
             !.newTransactions = Append(@,
                 [id |-> Len(@) + 1,
                  date |-> row.date,
                  centerId |-> row.centerId,
                  movementTypeId |-> row.movementTypeId,
                  detail |-> row.detail,
                  amount |-> row.amount,
                  currency |-> row.currency]),
             !.fromLine = Append(@, at - 1)]

\* The rest of the loop body once the row is decoded: the continue, or the
\* push of the transaction; fromLine records the 0-based index of its line.
RowStep(acc, row, at) ==
    IF row = Skip THEN acc
    ELSE [acc EXCEPT
             !.newTransactions = Append(@,
                 [id |-> Len(@) + 1,
                  date |-> row.date,
                  centerId |-> row.centerId,
                  movementTypeId |-> row.movementTypeId,
                  detail |-> row.detail,
                  amount |-> row.amount,
                  currency |-> row.currency]),
             !.fromLine = Append(@, at - 1)]

\* The for-loop over lines[i], i >= 1 (0-based), from the 1-based position
\* at. It returns newTransactions, the errors counter, and for every pushed
\* transaction the 0-based index of its line. No statement of the loop body
\* throws on strings and on catalog entries that have a name, so the catch
\* block, the only place that increments errors, is not entered.
RECURSIVE RowLoop(_, _, _, _, _, _, _, _)
RowLoop(lines, at, delim, col, types, cs, now, acc) ==
    IF at > Len(lines) THEN acc
    ELSE RowLoop(lines, at + 1, delim, col, types, cs, now,
                 RowStep(acc, DecodeRow(lines[at], delim, col, types, cs, now), at))

\* What one run of parseSheetCSV does, up to the dialog it ends with. The
\* id of the k-th pushed transaction is the k-th value randomUUID returns
\* in this run; firstUuid is the number of values returned before the run.
\*   outcome "empty"          alert: the file has fewer than two lines
\*   outcome "missingColumns" alert naming the detected headers
\*   outcome "noValid"        alert: no valid record
\*   outcome "confirm"        window.confirm with the two counters
NoCandidate ==
    [outcome |-> "empty", headers |-> <<>>, newTransactions |-> <<>>,
     fromLine |-> <<>>, errors |-> 0, warnedNoTypeColumn |-> FALSE]

\* After the loop: the k-th pushed transaction carries the k-th fresh id;
\* a non-empty list goes to the confirm dialog, an empty one to the alert.
AfterLoop(looped, headers, col, firstUuid) ==
    [outcome |-> IF Len(looped.newTransactions) > 0 THEN "confirm" ELSE "noValid",
     headers |-> headers,
     newTransactions |-> [k \in 1..Len(looped.newTransactions) |->
                             [looped.newTransactions[k] EXCEPT !.id = firstUuid + k]],
     fromLine |-> looped.fromLine,
     errors |-> looped.errors,
     warnedNoTypeColumn |-> (col.idxTypeDesc = -1)]

\* Mutant: only the date column is required.
WithColumnsDateOnly(lines, delim, headers, col, types, cs, now, firstUuid) ==
    IF col.idxDate = -1
    THEN [NoCandidate EXCEPT !.outcome = "missingColumns", !.headers = headers]
    ELSE AfterLoop(RowLoop(lines, 2, delim, col, types, cs, now,
                           [newTransactions |-> <<>>, fromLine |-> <<>>,
                            errors |-> 0]),
                   headers, col, firstUuid)

\* From the check of the two required columns to the end of the run.
WithColumns(lines, delim, headers, col, types, cs, now, firstUuid) ==
    IF col.idxDate = -1 \/ col.idxAmount = -1
    THEN [NoCandidate EXCEPT !.outcome = "missingColumns", !.headers = headers]
    ELSE AfterLoop(RowLoop(lines, 2, delim, col, types, cs, now,
                           [newTransactions |-> <<>>, fromLine |-> <<>>,
                            errors |-> 0]),
                   headers, col, firstUuid)

\* Steps "2. Parse Headers" and "3. Find specific columns".
WithDelimiter(lines, delim, types, cs, now, firstUuid) ==
    LET headers == MapSeq(normalize, parseCSVLine(lines[1], delim))
    IN WithColumns(lines, delim, headers, Columns(headers), types, cs, now,
                   firstUuid)

\* The run on the non-empty lines: the length check, then step
\* "1. Detect Delimiter".
WithLines(lines, types, cs, now, firstUuid) ==
    IF Len(lines) < 2 THEN NoCandidate
    ELSE WithDelimiter(lines, DetectDelimiter(lines[1]), types, cs, now,
                       firstUuid)

parseSheetCSV(csv, types, cs, now, firstUuid) ==
    WithLines(NonEmptyLines(csv), types, cs, now, firstUuid)

-----------------------------------------------------------------------------
(* Amounts of the ledger: JavaScript numbers, IEEE 754 binary64 *)

\* A finite number is a sign and the set of the exponents of the powers of
\* two that make up its magnitude; a binary64 magnitude spans at most
\* MantissaBits consecutive exponents. Zero has no bits.
MantissaBits == 53

Zero == [neg |-> FALSE, bits |-> {}]

Top(S) == CHOOSE x \in S : \A y \in S : y <= x
Bottom(S) == CHOOSE x \in S : \A y \in S : x <= y

\* |A| < |B| for two magnitudes
MagLess(A, B) ==
    A # B /\ Top((A \ B) \cup (B \ A)) \in B

\* A + B: bit i is set when an odd number of a_i, b_i and the carry into i
\* are; the carry into i starts at a position where both are set and runs
\* through positions where at least one is.
MagAdd(A, B) ==
    IF A = {} THEN B
    ELSE IF B = {} THEN A
    ELSE LET both == A \cap B
             any == A \cup B
             Carry(i) == \E j \in both :
                             j < i /\ \A k \in (j + 1)..(i - 1) : k \in any
             Odd(i) == ((i \in A) # (i \in B)) # Carry(i)
         IN {i \in Bottom(any)..(Top(any) + 1) : Odd(i)}

\* A - B for A >= B: the borrow into i starts at a position where only b
\* is set and runs through positions where a_k = b_k or only b is set.
MagSub(A, B) ==
    IF B = {} THEN A
    ELSE LET onlyB == B \ A
             onlyA == A \ B
             Borrow(i) == \E j \in onlyB :
                              j < i /\ \A k \in (j + 1)..(i - 1) : k \notin onlyA
             Odd(i) == ((i \in A) # (i \in B)) # Borrow(i)
         IN {i \in Bottom(A \cup B)..Top(A) : Odd(i)}

\* Round to nearest, ties to even: the result of every arithmetic operation
RoundToDouble(S) ==
    IF S = {} \/ Bottom(S) > Top(S) - MantissaBits THEN S
    ELSE LET last == Top(S) - MantissaBits + 1
             kept == {i \in S : i >= last}
             rest == {i \in S : i < last}
             half == last - 1
             up == half \in rest /\ (rest # {half} \/ last \in S)
         IN IF up THEN MagAdd(kept, {last}) ELSE kept

\* x + y
Plus(x, y) ==
    IF x.neg = y.neg
    THEN [neg |-> x.neg, bits |-> RoundToDouble(MagAdd(x.bits, y.bits))]
    ELSE IF x.bits = y.bits THEN Zero
    ELSE IF MagLess(x.bits, y.bits)
    THEN [neg |-> y.neg, bits |-> RoundToDouble(MagSub(y.bits, x.bits))]
    ELSE [neg |-> x.neg, bits |-> RoundToDouble(MagSub(x.bits, y.bits))]

\* x - y
Minus(x, y) ==
    Plus(x, IF y.bits = {} THEN y ELSE [neg |-> ~y.neg, bits |-> y.bits])

-----------------------------------------------------------------------------
(* Ledger aggregator: TransactionList.tsx groupedTransactions and the       *)
(* Dashboard's statsByCurrency and chartData                                *)

\* The characters of a date, in code-unit order.
DateChars == <<"-", "0", "1", "2", "3", "4", "5", "6", "7", "8", "9">>

\* a < b for two strings of date characters
StrLess(a, b) ==
    \E i \in 1..Len(b) :
        /\ \A j \in 1..(i - 1) : j <= Len(a) /\ a[j] = b[j]
        /\ \/ i > Len(a)
           \/ PositionIn(DateChars, a[i]) < PositionIn(DateChars, b[i])

StrLeq(a, b) == a = b \/ StrLess(a, b)

\* Insert t into a list sorted newest first, after every entry that is not
\* older: Array.prototype.sort is stable.
RECURSIVE InsertNewestFirst(_, _)
InsertNewestFirst(sorted, t) ==
    IF sorted = <<>> THEN <<t>>
    ELSE IF StrLeq(t.date, Head(sorted).date)
         THEN <<Head(sorted)>> \o InsertNewestFirst(Tail(sorted), t)
         ELSE <<t>> \o sorted

\* .sort((a, b) => b.date.localeCompare(a.date))
RECURSIVE SortNewestFirst(_, _)
SortNewestFirst(txs, sorted) ==
    IF txs = <<>> THEN sorted
    ELSE SortNewestFirst(Tail(txs), InsertNewestFirst(sorted, Head(txs)))

RECURSIVE InsertOldestFirst(_, _)
InsertOldestFirst(sorted, t) ==
    IF sorted = <<>> THEN <<t>>
    ELSE IF StrLeq(Head(sorted).date, t.date)
         THEN <<Head(sorted)>> \o InsertOldestFirst(Tail(sorted), t)
         ELSE <<t>> \o sorted

\* [...relevantTransactions].sort((a, b) => a.date.localeCompare(b.date))
RECURSIVE SortOldestFirst(_, _)
SortOldestFirst(txs, sorted) ==
    IF txs = <<>> THEN sorted
    ELSE SortOldestFirst(Tail(txs), InsertOldestFirst(sorted, Head(txs)))

\* TransactionList: filteredTransactions
ListFilteredTransactions(txs, view) ==
    LET dateMatch(t) ==
            IF view.filterMode = "month"
            THEN StartsWith(t.date, view.selectedMonth)
            ELSE StrLeq(view.dateRange.start, t.date)
                 /\ StrLeq(t.date, view.dateRange.end)
        typeMatch(t) ==
            view.filterTypeId # "" => t.movementTypeId = view.filterTypeId
        searchMatch(t) ==
            view.searchTerm # <<>> =>
                IncludesStr(toLowerCase(t.detail), toLowerCase(view.searchTerm))
    IN SortNewestFirst(
           SelectSeq(txs, LAMBDA t : dateMatch(t) /\ typeMatch(t) /\ searchMatch(t)),
           <<>>)

\* Mutant: a transaction whose type is not in the catalog counts as income.
IsIncomeTypeOrMissing(types, id) ==
    \/ \A i \in 1..Len(types) : types[i].id # id
    \/ LET first == CHOOSE i \in 1..Len(types) :
                        /\ types[i].id = id
                        /\ \A j \in 1..(i - 1) : types[j].id # id
       IN types[first].category = INCOME

\* movementTypes.find(m => m.id === id)?.category === MovementCategory.INCOME
IsIncomeType(types, id) ==
    /\ \E i \in 1..Len(types) : types[i].id = id
    /\ LET first == CHOOSE i \in 1..Len(types) :
                        /\ types[i].id = id
                        /\ \A j \in 1..(i - 1) : types[j].id # id
       IN types[first].category = INCOME

NoTotals == [income |-> Zero, expense |-> Zero, balance |-> Zero]

\* One step of the accumulation over the currency of a transaction: income
\* and balance grow by an income, expense grows and balance shrinks by
\* anything else.
AddToTotals(acc, t, types) ==
    LET code == OrDefault(t.currency, Str_ARS)
        before == IF code \in DOMAIN acc THEN acc[code] ELSE NoTotals
        after == IF IsIncomeType(types, t.movementTypeId)
                 THEN [income |-> Plus(before.income, t.amount),
                       expense |-> before.expense,
                       balance |-> Plus(before.balance, t.amount)]
                 ELSE [income |-> before.income,
                       expense |-> Plus(before.expense, t.amount),
                       balance |-> Minus(before.balance, t.amount)]
    IN [c \in (DOMAIN acc) \cup {code} |-> IF c = code THEN after ELSE acc[c]]

\* txs.reduce(..., {}) of groupedTransactions, from position at
RECURSIVE GroupTotals(_, _, _, _)
GroupTotals(txs, at, types, acc) ==
    IF at > Len(txs) THEN acc
    ELSE GroupTotals(txs, at + 1, types, AddToTotals(acc, txs[at], types))

\* Mutant: the whole date is the key.
MonthKeyWholeDate(date) == date

\* date.substring(0, 7)
MonthKey(date) == SubSeq(date, 1, 7)

\* The members of a set of date strings, latest first.
RECURSIVE Descending(_)
Descending(keys) ==
    IF keys = {} THEN <<>>
    ELSE LET latest == CHOOSE k \in keys : \A other \in keys : StrLeq(other, k)
         IN <<latest>> \o Descending(keys \ {latest})

Reversed(seq) == [i \in 1..Len(seq) |-> seq[Len(seq) + 1 - i]]

\* TransactionList: groupedTransactions
groupedTransactions(filtered, types) ==
    LET months == Descending({MonthKey(filtered[i].date) : i \in 1..Len(filtered)})
        InMonth(m) == SelectSeq(filtered, LAMBDA t : MonthKey(t.date) = m)
    IN [g \in 1..Len(months) |->
           [month |-> months[g],
            transactions |-> InMonth(months[g]),
            totals |-> GroupTotals(InMonth(months[g]), 1, types, <<>>)]]

\* Dashboard: filteredTransactions
DashFilteredTransactions(txs, view) ==
    IF view.filterMode = "all" THEN txs
    ELSE SelectSeq(txs, LAMBDA t : StrLeq(view.startDate, t.date)
                                   /\ StrLeq(t.date, view.endDate))

\* Dashboard: statsByCurrency, the forEach from position at
RECURSIVE StatsFrom(_, _, _, _)
StatsFrom(filtered, at, types, data) ==
    IF at > Len(filtered) THEN data
    ELSE StatsFrom(filtered, at + 1, types, AddToTotals(data, filtered[at], types))

statsByCurrency(filtered, types) == StatsFrom(filtered, 1, types, <<>>)

\* Dashboard: chartData, the forEach over sorted from position at; a key is
\* the month in mode 'all' and the day otherwise
RECURSIVE ChartFrom(_, _, _, _, _)
ChartFrom(sorted, at, types, filterMode, data) ==
    IF at > Len(sorted) THEN data
    ELSE LET t == sorted[at]
             key == IF filterMode = "all" THEN MonthKey(t.date) ELSE t.date
             before == IF key \in DOMAIN data THEN data[key]
                       ELSE [income |-> Zero, expense |-> Zero]
             after == IF IsIncomeType(types, t.movementTypeId)
                      THEN [before EXCEPT !.income = Plus(@, t.amount)]
                      ELSE [before EXCEPT !.expense = Plus(@, t.amount)]
         IN ChartFrom(sorted, at + 1, types, filterMode,
                      [k \in (DOMAIN data) \cup {key} |->
                          IF k = key THEN after ELSE data[k]])

\* Dashboard: chartData, without the display label of an entry
chartData(filtered, types, filterMode, chartCurrency) ==
    LET relevant == SelectSeq(filtered, LAMBDA t : t.currency = chartCurrency)
        data == ChartFrom(SortOldestFirst(relevant, <<>>), 1, types, filterMode, <<>>)
        keys == Reversed(Descending(DOMAIN data))
    IN [k \in 1..Len(keys) |->
           [sortKey |-> keys[k],
            income |-> data[keys[k]].income,
            expense |-> data[keys[k]].expense]]

\* Dashboard: the effect that moves chartCurrency to the first available
\* currency when the selected one has no transaction
ChartCurrencyEffect(txs, view) ==
    IF Len(txs) > 0 /\ \A i \in 1..Len(txs) : txs[i].currency # view.chartCurrency
    THEN [view EXCEPT !.chartCurrency = txs[1].currency]
    ELSE view

-----------------------------------------------------------------------------
(* Treasury report: TransactionList.tsx generatePDF                         *)

\* The value of subCategory that MasterData stores for a type without one.
Null == <<"<null>">>

Str_INVERSIONES ==
    <<"I", "N", "V", "E", "R", "S", "I", "O", "N", "E", "S">>
Str_GASTOS_ESPECIFICOS_DE_MINISTERIO ==
    <<"G", "A", "S", "T", "O", "S", " ", "E", "S", "P", "E", "C", "I", "F",
      "I", "C", "O", "S", " ", "D", "E", " ", "M", "I", "N", "I", "S", "T",
      "E", "R", "I", "O">>
Str_GASTOS_GENERALES ==
    <<"G", "A", "S", "T", "O", "S", " ", "G", "E", "N", "E", "R", "A", "L",
    "E", "S">>
Str_OTROS ==
    <<"O", "T", "R", "O", "S">>
Str_NoHayMovimientos ==
    <<"N", "o", " ", "h", "a", "y", " ", "m", "o", "v", "i", "m", "i", "e",
      "n", "t", "o", "s", " ", "p", "a", "r", "a", " ", "e", "l", " ", "m",
      "e", "s", " ", "s", "e", "l", "e", "c", "c", "i", "o", "n", "a", "d",
      "o", ".">>

expenseGroups ==
    <<Str_INVERSIONES, Str_GASTOS_ESPECIFICOS_DE_MINISTERIO, Str_GASTOS_GENERALES>>

\* sub || ''
OrEmpty(sub) == IF sub = Null \/ sub = Undefined THEN <<>> ELSE sub

\* expenseGroups.includes(label)
InExpenseGroups(label) == \E g \in 1..Len(expenseGroups) : expenseGroups[g] = label

\* .reduce((acc, curr) => acc + curr.amount, 0), from position at
RECURSIVE SumAmounts(_, _, _)
SumAmounts(txs, at, acc) ==
    IF at > Len(txs) THEN acc
    ELSE SumAmounts(txs, at + 1, Plus(acc, txs[at].amount))

\* sum > 0
Positive(x) == ~x.neg /\ x.bits # {}

\* The row of one movement type: its name and the sum of the month's
\* transactions of the type, which the cell shows only when it is positive.
TypeRow(type, pdfTransactions) ==
    LET sum == SumAmounts(SelectSeq(pdfTransactions,
                                    LAMBDA t : t.movementTypeId = type.id),
                          1, Zero)
    IN [kind |-> "type", content |-> type.name, sum |-> sum,
        shown |-> Positive(sum)]

HeaderRow(title) ==
    [kind |-> "header", content |-> title, sum |-> Zero, shown |-> FALSE]

TypeRows(types, pdfTransactions) ==
    [i \in 1..Len(types) |-> TypeRow(types[i], pdfTransactions)]

\* Mutant: the types of a group are taken whatever their category.
GroupRowsOfAnyCategory(group, types, pdfTransactions) ==
    <<HeaderRow(group)>>
        \o TypeRows(SelectSeq(types, LAMBDA m : m.subCategory = group),
                    pdfTransactions)

\* The rows one pass of expenseGroups.forEach pushes: the title of the
\* group, then one row per expense type of that sub-category.
GroupRows(group, types, pdfTransactions) ==
    <<HeaderRow(group)>>
        \o TypeRows(SelectSeq(types, LAMBDA m : m.category = EXPENSE
                                                /\ m.subCategory = group),
                    pdfTransactions)

\* The rows pushed for the expense types of no known sub-category.
OtherRows(types, pdfTransactions) ==
    LET otherExpenses ==
            SelectSeq(types, LAMBDA m : m.category = EXPENSE
                                        /\ ~InExpenseGroups(OrEmpty(m.subCategory)))
    IN IF Len(otherExpenses) > 0
       THEN <<HeaderRow(Str_OTROS)>> \o TypeRows(otherExpenses, pdfTransactions)
       ELSE <<>>

\* The tables and totals generatePDF draws for a month.
ReportOf(pdfTransactions, types, month) ==
    [kind |-> "pdf",
     month |-> month,
     incomeRows |->
        TypeRows(SelectSeq(types, LAMBDA m : m.category = INCOME), pdfTransactions),
     totalIncome |->
        SumAmounts(SelectSeq(pdfTransactions,
                             LAMBDA t : IsIncomeType(types, t.movementTypeId)),
                   1, Zero),
     expenseRows |->
        GroupRows(expenseGroups[1], types, pdfTransactions)
            \o GroupRows(expenseGroups[2], types, pdfTransactions)
            \o GroupRows(expenseGroups[3], types, pdfTransactions)
            \o OtherRows(types, pdfTransactions),
     totalExpense |->
        SumAmounts(SelectSeq(pdfTransactions,
                             LAMBDA t : ~IsIncomeType(types, t.movementTypeId)),
                   1, Zero)]

\* What a step leaves for the user: nothing, an alert, or a saved document.
NoReport == [kind |-> "none"]
AlertOf(message) == [kind |-> "alert", message |-> message]

\* generatePDF: the alert when the month has no transaction, the document
\* otherwise
PdfOutput(txs, types, month) ==
    LET pdfTransactions == SelectSeq(txs, LAMBDA t : StartsWith(t.date, month))
    IN IF Len(pdfTransactions) = 0
       THEN AlertOf(Str_NoHayMovimientos)
       ELSE ReportOf(pdfTransactions, types, month)

-----------------------------------------------------------------------------
(* Specification SpecTokenizer: parseCSVLine applied to every bounded line *)

TokLines ==
    StringsUpTo(TokAlphabet, MaxLineLen)
        \cup {ExampleLineQuotedDelimiter, ExampleLineDoubledQuote}

InitTokenizer ==
    /\ text \in TokLines
    /\ delimiter \in {",", ";"}
    /\ result = Pending
    /\ movementTypes = Unused
    /\ AmountIdle /\ ClassifierIdle /\ ImportIdle /\ LedgerIdle
    /\ DecoderIdle /\ StoreIdle
    /\ CatalogIdle /\ DocsIdle /\ SessionIdle /\ UsersIdle

\* One call of parseCSVLine(text, delimiter); the call returns a field list.
ParseCSVLineCall ==
    /\ result = Pending
    /\ result' = Returned(parseCSVLine(text, delimiter))
    /\ UNCHANGED <<text, delimiter>>
    /\ UNCHANGED <<amtVars, movementTypes, clsVars, impVars, ledVars, decVars, stoVars>>
    /\ UNCHANGED <<catVars, docVars, sesVars, usrVars>>

NextTokenizer == ParseCSVLineCall

SpecTokenizer == InitTokenizer /\ [][NextTokenizer]_vars

-----------------------------------------------------------------------------
(* Specification SpecAmount: the amount decoder applied to every bounded cell *)

\* Characters the amount decoder is exercised on: digits, both separators,
\* the currency sign and a blank.
AmtAlphabet == {"0", "1", "5", ".", ",", "$", " "}

\* The three amounts the specification quotes: 1.234,50  1234.50  1234,50
ExampleAmountLatin == <<"1", ".", "2", "3", "4", ",", "5", "0">>
ExampleAmountPoint == <<"1", "2", "3", "4", ".", "5", "0">>
ExampleAmountComma == <<"1", "2", "3", "4", ",", "5", "0">>

AmtCells ==
    StringsUpTo(AmtAlphabet, MaxAmountLen)
        \cup {ExampleAmountLatin, ExampleAmountPoint, ExampleAmountComma}

InitAmount ==
    /\ amountCell \in AmtCells
    /\ amount = Pending
    /\ movementTypes = Unused
    /\ TokenizerIdle /\ ClassifierIdle /\ ImportIdle /\ LedgerIdle
    /\ DecoderIdle /\ StoreIdle
    /\ CatalogIdle /\ DocsIdle /\ SessionIdle /\ UsersIdle

\* The amount step of one row: amount = the decoded cell.
DecodeAmountCall ==
    /\ amount = Pending
    /\ amount' = DecodeAmount(amountCell)
    /\ UNCHANGED amountCell
    /\ UNCHANGED <<tokVars, movementTypes, clsVars, impVars, ledVars, decVars, stoVars>>
    /\ UNCHANGED <<catVars, docVars, sesVars, usrVars>>

NextAmount == DecodeAmountCall

SpecAmount == InitAmount /\ [][NextAmount]_vars

-----------------------------------------------------------------------------
(* Specification SpecClassifier: the classifier on every bounded catalog *)

\* Characters of catalog names and of type descriptions: letters of both
\* cases and the blank (names are stored as typed, blanks included).
NameAlphabet == {"a", "B", " "}

Str_OFRENDAS == <<"O", "F", "R", "E", "N", "D", "A", "S">>
Str_MISIONERAS == <<"M", "I", "S", "I", "O", "N", "E", "R", "A", "S">>
Str_ESPECIALES == <<"E", "S", "P", "E", "C", "I", "A", "L", "E", "S">>
Str_OFRENDAS_MISIONERAS == Str_OFRENDAS \o <<" ">> \o Str_MISIONERAS
Str_OFRENDAS_MISIONERAS_ESPECIALES ==
    Str_OFRENDAS_MISIONERAS \o <<" ">> \o Str_ESPECIALES

TypeIds == <<"t1", "t2", "t3", "t4">>

\* A catalog with the given names: ids by position, categories alternating.
CatalogOf(names) ==
    [i \in 1..Len(names) |->
        [id |-> TypeIds[i], name |-> names[i],
         category |-> IF i % 2 = 1 THEN INCOME ELSE EXPENSE,
         subCategory |-> Undefined]]

ExampleCatalog == CatalogOf(<<Str_OFRENDAS, Str_OFRENDAS_MISIONERAS>>)

\* The same catalog with OFRENDAS stored with twelve trailing blanks, as
\* typed into the name field.
Blanks(n) == [i \in 1..n |-> " "]
PaddedCatalog == CatalogOf(<<Str_OFRENDAS \o Blanks(12), Str_OFRENDAS_MISIONERAS>>)

\* Names are never empty: saveTypeHandler refuses an empty name.
ClsNames == StringsUpTo(NameAlphabet, MaxNameLen) \ {<<>>}

ClsCatalogs ==
    {CatalogOf(names) : names \in UNION {[1..k -> ClsNames] : k \in 0..MaxTypes}}
        \cup {ExampleCatalog, PaddedCatalog}

ClsTexts ==
    StringsUpTo(NameAlphabet, MaxTextLen) \cup {Str_OFRENDAS_MISIONERAS_ESPECIALES}

InitClassifier ==
    /\ movementTypes \in ClsCatalogs
    /\ rawTypeDesc \in ClsTexts
    /\ matchedType = Pending
    /\ TokenizerIdle /\ AmountIdle /\ ImportIdle /\ LedgerIdle
    /\ DecoderIdle /\ StoreIdle
    /\ CatalogIdle /\ DocsIdle /\ SessionIdle /\ UsersIdle

\* The type-mapping step of one row.
ClassifyCall ==
    /\ matchedType = Pending
    /\ matchedType' = Returned(Classify(movementTypes, rawTypeDesc))
    /\ UNCHANGED <<movementTypes, rawTypeDesc>>
    /\ UNCHANGED <<tokVars, amtVars, impVars, ledVars, decVars, stoVars>>
    /\ UNCHANGED <<catVars, docVars, sesVars, usrVars>>

NextClassifier == ClassifyCall

SpecClassifier == InitClassifier /\ [][NextClassifier]_vars

-----------------------------------------------------------------------------
(* Specification Spec: files uploaded to the transaction list *)

Str_ALQUILERES ==
    <<"A", "L", "Q", "U", "I", "L", "E", "R", "E", "S">>
Str_ENTRADAS ==
    <<"E", "N", "T", "R", "A", "D", "A", "S">>

\* Three entries of INITIAL_MOVEMENT_TYPES, and the catalog before seeding.
SeedTypes ==
    <<[id |-> "ing_ofrendas", name |-> Str_OFRENDAS,
       category |-> INCOME, subCategory |-> Str_ENTRADAS],
      [id |-> "ing_ofrendas_misioneras", name |-> Str_OFRENDAS_MISIONERAS,
       category |-> INCOME, subCategory |-> Str_ENTRADAS],
      [id |-> "egr_alquileres", name |-> Str_ALQUILERES,
       category |-> EXPENSE, subCategory |-> Str_GASTOS_GENERALES]>>

\* INITIAL_CENTERS
SeedCenters == <<[id |-> "c1"], [id |-> "c2"]>>

\* Two consecutive processing dates.
Day1 ==
    <<"2", "0", "2", "4", "-", "0", "3", "-", "0", "5">>
Day2 ==
    <<"2", "0", "2", "4", "-", "0", "3", "-", "0", "6">>

\* Header lines: the full header, headers without the date or the amount
\* column, and a comma-separated header with an accented fallback column.
HeaderFull ==
    <<"F", "e", "c", "h", "a", ";", "M", "o", "n", "t", "o", ";", "D", "e",
    "t", "a", "l", "l", "e", ";", "M", "o", "n", "e", "d", "a", ";", "D",
    "e", "s", "c", "r", "i", "p", "c", "i", "o", "n", "_", "T", "i", "p",
    "o", "_", "M", "o", "v", "i", "m", "i", "e", "n", "t", "o">>
HeaderNoDate ==
    <<"M", "o", "n", "t", "o", ";", "D", "e", "t", "a", "l", "l", "e", ";",
    "M", "o", "n", "e", "d", "a">>
HeaderNoAmount ==
    <<"F", "e", "c", "h", "a", ";", "D", "e", "t", "a", "l", "l", "e", ";",
    "M", "o", "n", "e", "d", "a">>
HeaderComma ==
    <<"F", "e", "c", "h", "a", ",", "M", "o", "n", "t", "o", "2", ",", "D",
    "e", "s", "c", "r", "i", "p", "c", "i", "{o-acute}", "n">>

\* Data lines: the quoted example row; a zero amount; an unparseable amount;
\* a row with no date, a negative amount, a quoted delimiter, a lower-case
\* currency and a description no catalog name is contained in; a blank
\* line; a comma-separated row.
LineExample ==
    <<"0", "1", "/", "0", "1", "/", "2", "0", "2", "4", ";", "1", ".", "5",
    "0", "0", ",", "0", "0", ";", "O", "f", "r", "e", "n", "d", "a", " ",
    "e", "n", "e", "r", "o", ";", "A", "R", "S", ";", "O", "F", "R", "E",
    "N", "D", "A", "S">>
LineZero ==
    <<"0", "2", "/", "0", "1", "/", "2", "0", "2", "4", ";", "0", ",", "0",
    "0", ";", "S", "i", "n", " ", "m", "o", "v", "i", "m", "i", "e", "n",
    "t", "o", ";", "A", "R", "S", ";", "O", "F", "R", "E", "N", "D", "A",
    "S">>
LineBadAmount ==
    <<"0", "3", "/", "0", "1", "/", "2", "0", "2", "4", ";", "s", "/", "d",
    ";", "P", "e", "n", "d", "i", "e", "n", "t", "e", ";", "U", "S", "D",
    ";", "A", "L", "Q", "U", "I", "L", "E", "R", "E", "S">>
LineMiss ==
    <<";", "-", "2", "5", "0", ",", "5", ";", "\"", "P", "a", "g", "o", ";",
    " ", "v", "a", "r", "i", "o", "s", "\"", ";", "u", "s", "d", ";", "V",
    "a", "r", "i", "o", "s">>
LineBlank ==
    <<" ", " ", " ">>
LineComma ==
    <<"5", "/", "3", "/", "2", "0", "2", "4", ",", "1", "2", "3", "4", ".",
    "5", "0", ",", "O", "F", "R", "E", "N", "D", "A", "S", " ", "M", "I",
    "S", "I", "O", "N", "E", "R", "A", "S", " ", "E", "S", "P", "E", "C",
    "I", "A", "L", "E", "S">>

Headers == {HeaderFull, HeaderNoDate, HeaderNoAmount, HeaderComma}

\* The data lines that go with a header: written with its delimiter.
DataLines(header) ==
    IF header = HeaderComma THEN {LineComma, LineBlank}
    ELSE {LineExample, LineZero, LineBadAmount, LineMiss, LineBlank}

\* A file is a header line followed by at most MaxRows lines, or nothing.
Files ==
    {<<>>} \cup
    UNION {{<<h>> \o body :
                body \in UNION {[1..k -> DataLines(h)] : k \in 0..MaxRows}} :
           h \in Headers}

\* A transaction document the collection holds before the session, under
\* the first id the store generated.
StoredBefore ==
    [id |-> 1, date |-> Day1, centerId |-> "c1",
     movementTypeId |-> "egr_alquileres",
     detail |-> <<"A", "l", "q", "u", "i", "l", "e", "r">>,
     amount |-> [kind |-> "num", neg |-> FALSE, mant |-> 400, scale |-> 0],
     currency |-> Str_ARS]

\* Mutant of batchSaveTransactions: each document is set under the id its
\* candidate carries.
batchSaveUnderCandidateIds(collection, refs, ts) ==
    LET written == {ts[k].id : k \in 1..Len(ts)}
    IN [id \in DOMAIN collection \cup written |->
           IF id \in written
           THEN ts[CHOOSE k \in 1..Len(ts) :
                       /\ ts[k].id = id
                       /\ \A j \in (k + 1)..Len(ts) : ts[j].id # id]
           ELSE collection[id]]

\* batchSaveTransactions: for the k-th transaction, doc(collection(...))
\* makes a reference with an id of the store's own (the refs + k-th it has
\* generated) and batch.set writes { ...t, id: ref.id } under it; the batch
\* is committed as a whole.
batchSaveTransactions(collection, refs, ts) ==
    LET written == {refs + k : k \in 1..Len(ts)}
    IN [id \in DOMAIN collection \cup written |->
           IF id \in written
           THEN [ts[id - refs] EXCEPT !.id = id]
           ELSE collection[id]]

\* Mutant of OnImportCalls: onImport is called whatever the answer.
OnImportCallsUnasked(parsed, ok) == <<parsed.newTransactions>>

\* The calls of onImport one run of parseSheetCSV makes: one, with the
\* candidates, inside `if (window.confirm(...))`.
OnImportCalls(parsed, ok) ==
    IF ok THEN <<parsed.newTransactions>> ELSE <<>>

Init ==
    /\ \E seeded \in BOOLEAN :
           /\ movementTypes = (IF seeded THEN SeedTypes ELSE <<>>)
           /\ centers = (IF seeded THEN SeedCenters ELSE <<>>)
    /\ csvText \in Files
    /\ today = Day1
    /\ uuidCount = 0
    /\ reading = 0
    /\ runs = <<>>
    /\ docs = [refs |-> 1,
               transactions |-> [id \in {1} |-> StoredBefore],
               readAsText |-> 0,
               commits |-> 0]
    /\ TokenizerIdle /\ AmountIdle /\ ClassifierIdle /\ LedgerIdle
    /\ DecoderIdle /\ StoreIdle
    /\ CatalogIdle /\ SessionIdle /\ UsersIdle

\* handleFileUpload: the user selects the file; a FileReader starts reading.
handleFileUpload ==
    /\ reading + Len(runs) < MaxImports
    /\ reading' = reading + 1
    /\ docs' = [docs EXCEPT !.readAsText = @ + 1]
    /\ UNCHANGED <<movementTypes, centers, csvText, today, uuidCount, runs>>
    /\ UNCHANGED <<tokVars, amtVars, clsVars, ledVars, decVars, stoVars>>
    /\ UNCHANGED <<catVars, sesVars, usrVars>>

\* reader.onload: parseSheetCSV(text) runs to its end: the alert, or the
\* confirm dialog, the user's answer and, on OK, the call of onImport, which
\* is App's handleImportTransactions: one batchSaveTransactions.
ReaderOnLoad ==
    /\ reading > 0
    /\ \E parsed \in {parseSheetCSV(csvText, movementTypes, centers, today, uuidCount)},
          ok \in BOOLEAN :
            /\ (parsed.outcome # "confirm") => ok = FALSE
            /\ \E calls \in {OnImportCalls(parsed, ok)} :
                /\ runs' = Append(runs,
                       [csvText |-> csvText,
                        movementTypes |-> movementTypes,
                        centers |-> centers,
                        today |-> today,
                        outcome |-> parsed.outcome,
                        headers |-> parsed.headers,
                        newTransactions |-> parsed.newTransactions,
                        fromLine |-> parsed.fromLine,
                        errors |-> parsed.errors,
                        warnedNoTypeColumn |-> parsed.warnedNoTypeColumn,
                        confirmed |-> ok,
                        onImport |-> calls])
                /\ docs' = IF calls = <<>> THEN docs
                           ELSE [docs EXCEPT
                                   !.transactions =
                                       batchSaveTransactions(@, docs.refs, calls[1]),
                                   !.refs = @ + Len(calls[1]),
                                   !.commits = @ + 1]
            /\ uuidCount' = uuidCount + Len(parsed.newTransactions)
    /\ reading' = reading - 1
    /\ UNCHANGED <<movementTypes, centers, csvText, today>>
    /\ UNCHANGED <<tokVars, amtVars, clsVars, ledVars, decVars, stoVars>>
    /\ UNCHANGED <<catVars, sesVars, usrVars>>

\* Midnight passes.
Tick ==
    /\ today = Day1
    /\ today' = Day2
    /\ UNCHANGED <<movementTypes, centers, csvText, uuidCount, reading, runs>>
    /\ UNCHANGED <<tokVars, amtVars, clsVars, ledVars, decVars, stoVars>>
    /\ UNCHANGED <<catVars, docVars, sesVars, usrVars>>

Next == handleFileUpload \/ ReaderOnLoad \/ Tick

Spec == Init /\ [][Next]_vars

-----------------------------------------------------------------------------
(* Specification SpecRowDecoders: the steps of parseSheetCSV that decode    *)
(* the header line and the cells of one row, each applied to bounded inputs *)

\* A row whose amount cell reads Infinity.
LineInfinite ==
    <<"0", "4", "/", "0", "1", "/", "2", "0", "2", "4", ";", "I", "n", "f",
      "i", "n", "i", "t", "y", ";", "S", "i", "n", " ", "t", "o", "p", "e",
      ";", "A", "R", "S", ";", "O", "F", "R", "E", "N", "D", "A", "S">>

RowLines ==
    {LineExample, LineZero, LineBadAmount, LineMiss, LineBlank, LineInfinite}

\* The date cells quoted by the specification, an ISO date, an absent cell,
\* and every trimmed cell of a digit, the slash and the blank.
Date_05_03_2024 ==
    <<"0", "5", "/", "0", "3", "/", "2", "0", "2", "4">>
Date_5_3_2024 ==
    <<"5", "/", "3", "/", "2", "0", "2", "4">>
Date_2024_03_05 ==
    <<"2", "0", "2", "4", "-", "0", "3", "-", "0", "5">>
DateAlphabet == {"7", "/", " "}
DateCells ==
    {c \in StringsUpTo(DateAlphabet, MaxCellLen) : trim(c) = c}
        \cup {Undefined, Date_05_03_2024, Date_5_3_2024, Date_2024_03_05}

\* Currency cells: an absent cell and every trimmed cell of a lower-case
\* letter, an upper-case letter, a letter outside A-Z, a symbol and the
\* blank.
CurrencyAlphabet == {"u", "S", "{n-tilde}", "$", " "}
CurrencyCells ==
    {c \in StringsUpTo(CurrencyAlphabet, MaxCellLen) : trim(c) = c}
        \cup {Undefined}

\* First lines of a file: every line of a letter and the two delimiters.
DelimiterAlphabet == {"a", ";", ","}
FirstLines == StringsUpTo(DelimiterAlphabet, MaxCellLen)

\* Normalized header lists: up to MaxHeaders of the names step 3 looks for.
HeaderNamesLookedFor ==
    {H_fecha, H_monto, H_monto2, H_descripcion_tipo_movimiento,
     H_tipo_movimiento, H_descripcion}
HeaderLists == StringsUpTo(HeaderNamesLookedFor, MaxHeaders)

DecoderCalls ==
    {[step |-> "DecodeRow", line |-> l, types |-> t, now |-> d] :
        l \in RowLines, t \in {SeedTypes, <<>>}, d \in {Day1, Day2}}
    \cup {[step |-> "DecodeDate", cell |-> c, now |-> d] :
             c \in DateCells, d \in {Day1, Day2}}
    \cup {[step |-> "DecodeCurrency", cell |-> c] : c \in CurrencyCells}
    \cup {[step |-> "DetectDelimiter", firstLine |-> l] : l \in FirstLines}
    \cup {[step |-> "Columns", headers |-> h] : h \in HeaderLists}

InitRowDecoders ==
    /\ decoderCall \in DecoderCalls
    /\ decoderResult = Pending
    /\ movementTypes = Unused
    /\ TokenizerIdle /\ AmountIdle /\ ClassifierIdle /\ ImportIdle /\ LedgerIdle
    /\ StoreIdle
    /\ CatalogIdle /\ DocsIdle /\ SessionIdle /\ UsersIdle

Decoded(value) ==
    /\ decoderResult = Pending
    /\ decoderResult' = Returned(value)
    /\ UNCHANGED <<decoderCall, movementTypes>>
    /\ UNCHANGED <<tokVars, amtVars, clsVars, impVars, ledVars, stoVars>>
    /\ UNCHANGED <<catVars, docVars, sesVars, usrVars>>

\* The body of the row loop on a line of a file with the full header.
DecodeRowCall ==
    /\ decoderCall.step = "DecodeRow"
    /\ Decoded(DecodeRow(decoderCall.line, ";",
                         Columns(MapSeq(normalize, parseCSVLine(HeaderFull, ";"))),
                         decoderCall.types, SeedCenters, decoderCall.now))

DecodeDateCall ==
    /\ decoderCall.step = "DecodeDate"
    /\ Decoded(DecodeDate(decoderCall.cell, decoderCall.now))

DecodeCurrencyCall ==
    /\ decoderCall.step = "DecodeCurrency"
    /\ Decoded(DecodeCurrency(decoderCall.cell))

DetectDelimiterCall ==
    /\ decoderCall.step = "DetectDelimiter"
    /\ Decoded(DetectDelimiter(decoderCall.firstLine))

ColumnsCall ==
    /\ decoderCall.step = "Columns"
    /\ Decoded(Columns(decoderCall.headers))

NextRowDecoders ==
    \/ DecodeRowCall
    \/ DecodeDateCall
    \/ DecodeCurrencyCall
    \/ DetectDelimiterCall
    \/ ColumnsCall

SpecRowDecoders == InitRowDecoders /\ [][NextRowDecoders]_vars

-----------------------------------------------------------------------------
(* Specification SpecLedger: the transaction list and the dashboard over    *)
(* the transactions the subscription delivers                               *)

\* The numbers 0.1, 0.2, 0.3, 400 and 1000.
Amount_0_1 ==
    [neg |-> FALSE,
     bits |->
        {-4, -5, -8, -9, -12, -13, -16, -17, -20, -21, -24, -25, -28, -29,
         -32, -33, -36, -37, -40, -41, -44, -45, -48, -49, -52, -53, -55}]
Amount_0_2 ==
    [neg |-> FALSE,
     bits |->
        {-3, -4, -7, -8, -11, -12, -15, -16, -19, -20, -23, -24, -27, -28,
         -31, -32, -35, -36, -39, -40, -43, -44, -47, -48, -51, -52, -54}]
Amount_0_3 ==
    [neg |-> FALSE,
     bits |->
        {-2, -5, -6, -9, -10, -13, -14, -17, -18, -21, -22, -25, -26, -29,
         -30, -33, -34, -37, -38, -41, -42, -45, -46, -49, -50, -53, -54}]
Amount_400 == [neg |-> FALSE, bits |-> {8, 7, 4}]
Amount_600 == [neg |-> FALSE, bits |-> {9, 6, 4, 3}]
Amount_1000 == [neg |-> FALSE, bits |-> {9, 8, 7, 6, 5, 3}]

Str_USD ==
    <<"U", "S", "D">>
Month_2024_02 ==
    <<"2", "0", "2", "4", "-", "0", "2">>
Month_2024_03 ==
    <<"2", "0", "2", "4", "-", "0", "3">>
Date_2024_02_01 ==
    <<"2", "0", "2", "4", "-", "0", "2", "-", "0", "1">>
Date_2024_02_03 ==
    <<"2", "0", "2", "4", "-", "0", "2", "-", "0", "3">>
Date_2024_02_05 ==
    <<"2", "0", "2", "4", "-", "0", "2", "-", "0", "5">>
Date_2024_02_15 ==
    <<"2", "0", "2", "4", "-", "0", "2", "-", "1", "5">>
Date_2024_02_29 ==
    <<"2", "0", "2", "4", "-", "0", "2", "-", "2", "9">>
Date_2024_03_01 ==
    <<"2", "0", "2", "4", "-", "0", "3", "-", "0", "1">>
Date_2024_03_02 ==
    <<"2", "0", "2", "4", "-", "0", "3", "-", "0", "2">>
Date_2024_03_04 ==
    <<"2", "0", "2", "4", "-", "0", "3", "-", "0", "4">>
Str_diezmo ==
    <<"D", "i", "e", "z", "m", "o">>
Str_alquiler ==
    <<"A", "l", "q", "u", "i", "l", "e", "r">>
Str_search ==
    <<"d", "i", "e">>

\* The documents of the transactions collection that can be delivered: an
\* income and an expense in March, two incomes on one day of February, and
\* an income and an expense in dollars, the latter of a movement type
\* that is no longer in the catalog; and a document written before
\* transactions had a currency field.
SampleTransactions ==
    {[id |-> "t1", date |-> Date_2024_03_04, centerId |-> "c1",
      movementTypeId |-> "ing_ofrendas", detail |-> Str_diezmo,
      amount |-> Amount_0_1, currency |-> Str_ARS],
     [id |-> "t2", date |-> Date_2024_03_02, centerId |-> "c1",
      movementTypeId |-> "egr_alquileres", detail |-> Str_alquiler,
      amount |-> Amount_0_1, currency |-> Str_ARS],
     [id |-> "t3", date |-> Date_2024_02_15, centerId |-> "c1",
      movementTypeId |-> "ing_ofrendas", detail |-> Str_diezmo,
      amount |-> Amount_0_2, currency |-> Str_ARS],
     [id |-> "t4", date |-> Date_2024_02_15, centerId |-> "c2",
      movementTypeId |-> "ing_ofrendas_misioneras", detail |-> Str_diezmo,
      amount |-> Amount_0_3, currency |-> Str_ARS],
     [id |-> "t5", date |-> Date_2024_02_05, centerId |-> "c1",
      movementTypeId |-> "ing_ofrendas", detail |-> Str_diezmo,
      amount |-> Amount_1000, currency |-> Str_USD],
     [id |-> "t6", date |-> Date_2024_02_03, centerId |-> "c1",
      movementTypeId |-> "egr_borrado", detail |-> Str_alquiler,
      amount |-> Amount_400, currency |-> Str_USD],
     [id |-> "t7", date |-> Date_2024_03_01, centerId |-> "c1",
      movementTypeId |-> "ing_ofrendas", detail |-> Str_diezmo,
      amount |-> Amount_600, currency |-> Undefined]}

\* The state of the two views when they mount on Day1.
ListViewOnMount ==
    [filterMode |-> "month",
     selectedMonth |-> SubSeq(Day1, 1, 7),
     dateRange |-> [start |-> Date_2024_03_01, end |-> Day1],
     searchTerm |-> <<>>,
     filterTypeId |-> ""]
DashViewOnMount ==
    [filterMode |-> "all", startDate |-> Day1, endDate |-> Day1,
     chartCurrency |-> Str_ARS]

\* A catalog after the administrator added types in MasterData: the new
\* documents get generated ids and a free-text sub-category, null when it
\* is left empty. The catalog has an income type, an expense type of each
\* sub-category of the report, an expense type without sub-category, one
\* with a sub-category the report does not know, and an income type that
\* carries the label of an expense sub-category.
Str_CONSTRUCCIONES ==
    <<"C", "O", "N", "S", "T", "R", "U", "C", "C", "I", "O", "N", "E", "S">>
Str_EVANGELISMO ==
    <<"E", "V", "A", "N", "G", "E", "L", "I", "S", "M", "O">>
Str_VARIOS ==
    <<"V", "A", "R", "I", "O", "S">>
Str_Inversiones ==
    <<"I", "n", "v", "e", "r", "s", "i", "o", "n", "e", "s">>
EditedTypes ==
    <<[id |-> "Kq3", name |-> Str_VARIOS,
       category |-> EXPENSE, subCategory |-> Null],
      [id |-> "Zx7", name |-> Str_VARIOS,
       category |-> EXPENSE, subCategory |-> Str_Inversiones],
      [id |-> "Zy1", name |-> Str_OFRENDAS_MISIONERAS,
       category |-> INCOME, subCategory |-> Str_INVERSIONES],
      [id |-> "egr_alquileres", name |-> Str_ALQUILERES,
       category |-> EXPENSE, subCategory |-> Str_GASTOS_GENERALES],
      [id |-> "egr_construcciones", name |-> Str_CONSTRUCCIONES,
       category |-> EXPENSE, subCategory |-> Str_INVERSIONES],
      [id |-> "egr_evangelismo", name |-> Str_EVANGELISMO,
       category |-> EXPENSE, subCategory |-> Str_GASTOS_ESPECIFICOS_DE_MINISTERIO],
      [id |-> "ing_ofrendas", name |-> Str_OFRENDAS,
       category |-> INCOME, subCategory |-> Str_ENTRADAS]>>

\* The catalogs the movement_types subscription has delivered when the
\* views mount.
LedgerCatalogs == {SeedTypes, EditedTypes}

PdfModalOnMount == [isOpen |-> FALSE, targetMonth |-> SubSeq(Day1, 1, 7)]

InitLedger ==
    /\ transactions = <<>>
    /\ movementTypes \in LedgerCatalogs
    /\ activeTab = "dashboard"
    /\ listView = ListViewOnMount
    /\ dashView = DashViewOnMount
    /\ viewChanges = 0
    /\ pdfModal = PdfModalOnMount
    /\ report = NoReport
    /\ centers = Unused /\ csvText = Unused /\ today = Unused
    /\ uuidCount = 0 /\ reading = 0 /\ runs = <<>>
    /\ TokenizerIdle /\ AmountIdle /\ ClassifierIdle
    /\ DecoderIdle /\ StoreIdle
    /\ CatalogIdle /\ DocsIdle /\ SessionIdle /\ UsersIdle

\* subscribeToTransactions: a snapshot with one more document arrives,
\* ordered by date descending (documents of one date in either order);
\* the dashboard, when it is mounted, then runs its chart-currency effect.
TransactionsSnapshot ==
    /\ Len(transactions) < MaxTx
    /\ \E t \in SampleTransactions, at \in 0..Len(transactions) :
           LET next == SubSeq(transactions, 1, at) \o <<t>>
                           \o SubSeq(transactions, at + 1, Len(transactions))
           IN /\ \A i \in 1..Len(transactions) : transactions[i].id # t.id
              /\ \A i \in 1..(Len(next) - 1) : StrLeq(next[i + 1].date, next[i].date)
              /\ transactions' = next
              /\ dashView' = IF activeTab = "dashboard"
                              THEN ChartCurrencyEffect(next, dashView)
                              ELSE dashView
    /\ report' = NoReport
    /\ UNCHANGED <<movementTypes, activeTab, listView, viewChanges, pdfModal>>
    /\ UNCHANGED <<tokVars, amtVars, clsVars, impVars, decVars, stoVars>>
    /\ UNCHANGED <<catVars, docVars, sesVars, usrVars>>

\* A change of one field of the transaction list's filters; the report
\* dialog covers the page while it is open.
ListViewChange(field, value) ==
    /\ activeTab = "list"
    /\ ~pdfModal.isOpen
    /\ viewChanges < MaxViewChanges
    /\ listView[field] # value
    /\ listView' = [listView EXCEPT ![field] = value]
    /\ viewChanges' = viewChanges + 1
    /\ report' = NoReport
    /\ UNCHANGED <<movementTypes, transactions, activeTab, dashView, pdfModal>>
    /\ UNCHANGED <<tokVars, amtVars, clsVars, impVars, decVars, stoVars>>
    /\ UNCHANGED <<catVars, docVars, sesVars, usrVars>>

List_setFilterMode == \E mode \in {"month", "range"} : ListViewChange("filterMode", mode)

List_setSelectedMonth ==
    \E month \in {Month_2024_02, Month_2024_03} : ListViewChange("selectedMonth", month)

List_setDateRange ==
    \/ ListViewChange("dateRange", [listView.dateRange EXCEPT !.start = Date_2024_02_01])
    \/ ListViewChange("dateRange", [listView.dateRange EXCEPT !.end = Date_2024_02_29])

List_setFilterTypeId ==
    \E id \in {"", "ing_ofrendas"} : ListViewChange("filterTypeId", id)

List_setSearchTerm ==
    \E term \in {<<>>, Str_search} : ListViewChange("searchTerm", term)

\* A change of one field of the dashboard's state, followed by the
\* chart-currency effect.
DashViewChange(field, value) ==
    /\ activeTab = "dashboard"
    /\ viewChanges < MaxViewChanges
    /\ dashView[field] # value
    /\ dashView' = ChartCurrencyEffect(transactions, [dashView EXCEPT ![field] = value])
    /\ viewChanges' = viewChanges + 1
    /\ report' = NoReport
    /\ UNCHANGED <<movementTypes, transactions, activeTab, listView, pdfModal>>
    /\ UNCHANGED <<tokVars, amtVars, clsVars, impVars, decVars, stoVars>>
    /\ UNCHANGED <<catVars, docVars, sesVars, usrVars>>

Dash_setFilterMode == \E mode \in {"all", "range"} : DashViewChange("filterMode", mode)

Dash_setStartDate == DashViewChange("startDate", Date_2024_02_01)

Dash_setEndDate == DashViewChange("endDate", Date_2024_02_29)

\* The select lists availableCurrencies; the option of an absent currency
\* has no value and no text, so choosing it gives ''.
Dash_setChartCurrency ==
    \E code \in {OrDefault(transactions[i].currency, <<>>) :
                     i \in 1..Len(transactions)} :
        DashViewChange("chartCurrency", code)

\* App: a navigation button, setActiveTab(tab). The view of the tab that
\* was active unmounts and loses its state; the view of the new tab mounts
\* with its initial state, and the dashboard runs its chart-currency effect.
setActiveTab ==
    /\ ~pdfModal.isOpen
    /\ \E tab \in {"dashboard", "list"} :
           /\ tab # activeTab
           /\ activeTab' = tab
           /\ dashView' = IF tab = "dashboard"
                          THEN ChartCurrencyEffect(transactions, DashViewOnMount)
                          ELSE DashViewOnMount
    /\ listView' = ListViewOnMount
    /\ pdfModal' = PdfModalOnMount
    /\ report' = NoReport
    /\ UNCHANGED <<movementTypes, transactions, viewChanges>>
    /\ UNCHANGED <<tokVars, amtVars, clsVars, impVars, decVars, stoVars>>
    /\ UNCHANGED <<catVars, docVars, sesVars, usrVars>>

\* The "Planilla PDF" button and the X of the dialog:
\* setIsPdfModalOpen(true) and setIsPdfModalOpen(false)
openPdfModal ==
    /\ activeTab = "list"
    /\ ~pdfModal.isOpen
    /\ pdfModal' = [pdfModal EXCEPT !.isOpen = TRUE]
    /\ report' = NoReport
    /\ UNCHANGED <<movementTypes, transactions, activeTab, listView, dashView,
                   viewChanges>>
    /\ UNCHANGED <<tokVars, amtVars, clsVars, impVars, decVars, stoVars>>
    /\ UNCHANGED <<catVars, docVars, sesVars, usrVars>>

closePdfModal ==
    /\ pdfModal.isOpen
    /\ pdfModal' = [pdfModal EXCEPT !.isOpen = FALSE]
    /\ report' = NoReport
    /\ UNCHANGED <<movementTypes, transactions, activeTab, listView, dashView,
                   viewChanges>>
    /\ UNCHANGED <<tokVars, amtVars, clsVars, impVars, decVars, stoVars>>
    /\ UNCHANGED <<catVars, docVars, sesVars, usrVars>>

\* The month input of the dialog
setPdfTargetMonth ==
    /\ pdfModal.isOpen
    /\ viewChanges < MaxViewChanges
    /\ \E month \in {Month_2024_02, Month_2024_03} :
           /\ month # pdfModal.targetMonth
           /\ pdfModal' = [pdfModal EXCEPT !.targetMonth = month]
    /\ viewChanges' = viewChanges + 1
    /\ report' = NoReport
    /\ UNCHANGED <<movementTypes, transactions, activeTab, listView, dashView>>
    /\ UNCHANGED <<tokVars, amtVars, clsVars, impVars, decVars, stoVars>>
    /\ UNCHANGED <<catVars, docVars, sesVars, usrVars>>

\* generatePDF: the button of the dialog. Without a transaction in the
\* month it alerts and returns; otherwise it saves the document and closes
\* the dialog.
generatePDF ==
    /\ pdfModal.isOpen
    /\ \E output \in {PdfOutput(transactions, movementTypes, pdfModal.targetMonth)} :
           /\ report' = output
           /\ pdfModal' = IF output.kind = "pdf"
                          THEN [pdfModal EXCEPT !.isOpen = FALSE]
                          ELSE pdfModal
    /\ UNCHANGED <<movementTypes, transactions, activeTab, listView, dashView,
                   viewChanges>>
    /\ UNCHANGED <<tokVars, amtVars, clsVars, impVars, decVars, stoVars>>
    /\ UNCHANGED <<catVars, docVars, sesVars, usrVars>>

NextLedger ==
    \/ TransactionsSnapshot
    \/ setActiveTab
    \/ List_setFilterMode
    \/ List_setSelectedMonth
    \/ List_setDateRange
    \/ List_setFilterTypeId
    \/ List_setSearchTerm
    \/ Dash_setFilterMode
    \/ Dash_setStartDate
    \/ Dash_setEndDate
    \/ Dash_setChartCurrency
    \/ openPdfModal
    \/ closePdfModal
    \/ setPdfTargetMonth
    \/ generatePDF

SpecLedger == InitLedger /\ [][NextLedger]_vars

-----------------------------------------------------------------------------
(* C2, C3: the aggregates of the two views *)

\* What the transaction list and the dashboard show in the current state.
ShownGroups ==
    groupedTransactions(ListFilteredTransactions(transactions, listView), movementTypes)
ShownStats ==
    statsByCurrency(DashFilteredTransactions(transactions, dashView), movementTypes)
ShownChart ==
    chartData(DashFilteredTransactions(transactions, dashView), movementTypes,
              dashView.filterMode, dashView.chartCurrency)

Balanced(totals) ==
    \A code \in DOMAIN totals :
        totals[code].balance = Minus(totals[code].income, totals[code].expense)

\* C2: every per-currency aggregate, of a month group of the transaction
\* list and of the dashboard, has balance = income - expense; incomes of
\* 1000 and expenses of 400 in one currency give the balance 600.
C2_BalanceIsIncomeMinusExpense ==
    /\ \A g \in 1..Len(ShownGroups) : Balanced(ShownGroups[g].totals)
    /\ Balanced(ShownStats)
    /\ \A code \in DOMAIN ShownStats :
           (ShownStats[code].income = Amount_1000
              /\ ShownStats[code].expense = Amount_400)
               => ShownStats[code].balance = Amount_600

\* The sum of one field of the aggregates of a currency over the month
\* groups, in the order of the groups.
RECURSIVE SumOverGroups(_, _, _, _)
SumOverGroups(groups, at, code, field) ==
    IF at > Len(groups) THEN Zero
    ELSE IF code \in DOMAIN groups[at].totals
    THEN Plus(groups[at].totals[code][field],
              SumOverGroups(groups, at + 1, code, field))
    ELSE SumOverGroups(groups, at + 1, code, field)

RECURSIVE SumOverChart(_, _, _)
SumOverChart(chart, at, field) ==
    IF at > Len(chart) THEN Zero
    ELSE Plus(chart[at][field], SumOverChart(chart, at + 1, field))

\* C3: for every currency, the incomes, the expenses and the balances of
\* the month groups add up to the income, expense and balance of the
\* aggregate over the same transactions; so do the monthly bars of the
\* dashboard chart for the chart currency.
C3_MonthlySumsEqualOverall ==
    /\ LET shown == ListFilteredTransactions(transactions, listView)
           overall == statsByCurrency(shown, movementTypes)
       IN \A code \in DOMAIN overall, field \in {"income", "expense", "balance"} :
              SumOverGroups(ShownGroups, 1, code, field) = overall[code][field]
    /\ (dashView.filterMode = "all" /\ dashView.chartCurrency \in DOMAIN ShownStats) =>
           \A field \in {"income", "expense"} :
               SumOverChart(ShownChart, 1, field)
                   = ShownStats[dashView.chartCurrency][field]

-----------------------------------------------------------------------------
(* C4 *)

PrependToFirst(c, fields) == <<(<<c>> \o Head(fields))>> \o Tail(fields)

\* Reference quote-aware splitter, by structural recursion on the rest of
\* the line: open says whether a quote is open before the rest.
RECURSIVE RefSplit(_, _, _)
RefSplit(rest, delim, open) ==
    IF rest = <<>> THEN << <<>> >>
    ELSE IF open /\ Len(rest) >= 2 /\ rest[1] = Quote /\ rest[2] = Quote
         THEN PrependToFirst(Quote, RefSplit(Tail(Tail(rest)), delim, TRUE))
    ELSE IF rest[1] = Quote
         THEN RefSplit(Tail(rest), delim, ~open)
    ELSE IF rest[1] = delim /\ ~open
         THEN << <<>> >> \o RefSplit(Tail(rest), delim, FALSE)
    ELSE PrependToFirst(rest[1], RefSplit(Tail(rest), delim, open))

\* A returned value is a field list: a non-empty sequence of strings made of
\* characters of the line.
IsFieldList(r, txt) ==
    /\ r \in Seq(Seq({txt[i] : i \in 1..Len(txt)}))
    /\ Len(r) >= 1

\* C4: for every line and delimiter, parseCSVLine returns (it never fails)
\* the field list of the reference quote-aware splitter: a delimiter
\* separates only outside quotes, a doubled quote inside a quoted field is
\* one literal quote, and the end of the line closes an open quote. The two
\* quoted example lines split into [a | b,c | d] and [a | b"c | d].
C4_TokenizerMatchesReference ==
    result # Pending =>
        /\ result.kind = "returned"
        /\ IsFieldList(result.value, text)
        /\ result.value = RefSplit(text, delimiter, FALSE)
        /\ (text = ExampleLineQuotedDelimiter /\ delimiter = ",") =>
               result.value = << <<"a">>, <<"b", ",", "c">>, <<"d">> >>
        /\ (text = ExampleLineDoubledQuote /\ delimiter = ",") =>
               result.value = << <<"a">>, <<"b", "\"", "c">>, <<"d">> >>

\* Witness: a tokenized line in which a delimiter was protected by an open
\* quote and a doubled quote produced a literal quote.
C4_Witness ==
    /\ result # Pending
    /\ delimiter = ","
    /\ text = <<"\"", ",", "\"", "\"">>
    /\ result.value = << <<",", "\"">> >>

-----------------------------------------------------------------------------
(* C5 *)

\* The cell after '$' and white space are stripped.
Stripped(cell) == RemoveAll(cell, {"$"} \cup WhiteSpace)

\* The digits of str, in order.
DigitsOf(str) == SelectSeq(str, LAMBDA c : c \in DigitChars)

\* Number of digits after the first occurrence of c in str.
DigitsAfter(str, c) ==
    LET at == CHOOSE i \in 1..Len(str) :
                  str[i] = c /\ \A j \in 1..(i - 1) : str[j] # c
    IN Len(DigitsOf(Drop(str, at)))

\* The number written by str when point is the decimal point.
ReadWithPoint(str, point) == parseFloat(ReplaceEvery(str, point, "."))

-----------------------------------------------------------------------------
(* C1 *)

CatalogEntries(types) == {types[i] : i \in 1..Len(types)}

\* C1: whenever the classifier assigns a type to a non-empty description,
\* the type is a catalog entry whose normalized name is a substring of the
\* normalized description, and no catalog entry with a strictly longer
\* normalized name is a substring of it too; OFRENDAS MISIONERAS ESPECIALES
\* is classified as OFRENDAS MISIONERAS, not OFRENDAS.
C1_LongestNormalizedMatch ==
    (matchedType # Pending /\ matchedType.value # NoType) =>
        LET mt == matchedType.value
            norm == normalize(rawTypeDesc)
        IN /\ mt \in CatalogEntries(movementTypes)
           /\ IncludesStr(norm, normalize(mt.name))
           /\ \A other \in CatalogEntries(movementTypes) :
                  IncludesStr(norm, normalize(other.name)) =>
                      Len(normalize(other.name)) <= Len(normalize(mt.name))
           /\ (movementTypes = ExampleCatalog
                 /\ rawTypeDesc = Str_OFRENDAS_MISIONERAS_ESPECIALES) =>
                  mt.name = Str_OFRENDAS_MISIONERAS

-----------------------------------------------------------------------------
(* C6 .. C10: the runs of parseSheetCSV recorded by Spec *)

\* The run that was completed last. Every run is the latest one in the
\* state its onload leaves, so what holds of the latest run in every
\* reachable state holds of every run.
Runs == IF runs = <<>> THEN {} ELSE {runs[Len(runs)]}

\* The lines of the file that hold something other than white space.
LinesOf(r) ==
    SelectSeq(r.csvText, LAMBDA l : \E i \in 1..Len(l) : l[i] \notin WhiteSpace)

DelimiterOf(r) == DetectDelimiter(LinesOf(r)[1])

\* The normalized names of the header line.
HeaderNames(r) ==
    LET cells == parseCSVLine(LinesOf(r)[1], DelimiterOf(r))
    IN {normalize(cells[i]) : i \in 1..Len(cells)}

HasHeaderLine(r) == Len(LinesOf(r)) >= 1

MissingRequired(r) ==
    HasHeaderLine(r) /\ (H_fecha \notin HeaderNames(r)
                         \/ HeaderNames(r) \cap {H_monto, H_monto2} = {})

PassedDetection(r) == r.outcome \in {"noValid", "confirm"}

\* The 0-based indexes of the data lines, and the trimmed cells of one.
DataIndexes(r) == 1..(Len(LinesOf(r)) - 1)
CellsOf(r, i) == MapSeq(trim, parseCSVLine(LinesOf(r)[i + 1], DelimiterOf(r)))

\* The amount of data line i is a number other than zero.
AmountOf(r, i) == DecodeAmount(At(CellsOf(r, i), Columns(r.headers).idxAmount))
Usable(r, i) ==
    \E a \in {AmountOf(r, i)} :
        a.kind = "inf" \/ (a.kind = "num" /\ a.mant # 0)

\* The type description of data line i, and whether the catalog misses it.
TypeDescOf(r, i) ==
    LET cell == At(CellsOf(r, i), Columns(r.headers).idxTypeDesc)
    IN IF Columns(r.headers).idxTypeDesc # -1 /\ Truthy(cell) THEN cell ELSE <<>>
Missed(r, i) ==
    \E norm \in {normalize(TypeDescOf(r, i))} :
        \/ norm = <<>>
        \/ \A e \in CatalogEntries(r.movementTypes) :
               ~IncludesStr(norm, normalize(e.name))

\* The positions of newTransactions that come from data line i.
PushedFrom(r, i) == {k \in 1..Len(r.fromLine) : r.fromLine[k] = i}

\* The increasing sequence of the members of a set of naturals.
RECURSIVE Ascending(_)
Ascending(S) ==
    IF S = {} THEN <<>>
    ELSE LET least == CHOOSE x \in S : \A y \in S : x <= y
         IN <<least>> \o Ascending(S \ {least})

\* C6 as stated: when the header line lacks 'fecha' or 'monto'/'monto2', no
\* candidate is produced, onImport is not invoked, and the alert lists the
\* detected headers, whatever the data lines are.
C6_AbortListsHeaders ==
    \A r \in Runs :
        MissingRequired(r) =>
            /\ r.newTransactions = <<>>
            /\ r.onImport = <<>>
            /\ r.outcome = "missingColumns"
            /\ {r.headers[i] : i \in 1..Len(r.headers)} = HeaderNames(r)

\* C6 amended: when the header line lacks 'fecha' or 'monto'/'monto2', no
\* candidate is produced and onImport is not invoked; the alert lists the
\* detected headers when the file has a data line, and reports an empty
\* file when the header line is the only line.
C6_AbortAsAWhole ==
    \A r \in Runs :
        MissingRequired(r) =>
            /\ r.newTransactions = <<>>
            /\ r.onImport = <<>>
            /\ Len(LinesOf(r)) >= 2 =>
                   /\ r.outcome = "missingColumns"
                   /\ {r.headers[i] : i \in 1..Len(r.headers)} = HeaderNames(r)
            /\ Len(LinesOf(r)) = 1 => r.outcome = "empty"

\* A file without the amount column whose data line is well formed was read.
C6_Witness ==
    \E r \in Runs :
        /\ LinesOf(r) = <<HeaderNoAmount, LineExample>>
        /\ r.outcome = "missingColumns"

\* C7 as stated: a row with a usable amount whose type description contains
\* no catalog name is imported, tagged with the sentinel, which is not the
\* id of a catalog entry.
C7_MissTaggedUnknown ==
    \A r \in Runs :
        PassedDetection(r) =>
            \A i \in DataIndexes(r) :
                (Usable(r, i) /\ Missed(r, i)) =>
                    /\ PushedFrom(r, i) # {}
                    /\ \A k \in PushedFrom(r, i) :
                           /\ r.newTransactions[k].movementTypeId = UnknownTypeId
                           /\ \A e \in CatalogEntries(r.movementTypes) :
                                  r.newTransactions[k].movementTypeId # e.id

\* C7 amended: a row with a usable amount whose type description contains
\* no catalog name is imported, tagged with the id of the first catalog
\* entry, and with the sentinel only when the catalog is empty.
C7_MissTaggedFirstType ==
    \A r \in Runs :
        PassedDetection(r) =>
            \A i \in DataIndexes(r) :
                (Usable(r, i) /\ Missed(r, i)) =>
                    /\ PushedFrom(r, i) # {}
                    /\ \A k \in PushedFrom(r, i) :
                           r.newTransactions[k].movementTypeId =
                               IF r.movementTypes = <<>> THEN UnknownTypeId
                               ELSE r.movementTypes[1].id

\* A row that the seed catalog misses was imported under the first seed type.
C7_Witness ==
    \E r \in Runs :
        /\ r.movementTypes = SeedTypes
        /\ LinesOf(r) = <<HeaderFull, LineMiss>>
        /\ Len(r.newTransactions) = 1
        /\ r.newTransactions[1].movementTypeId = SeedTypes[1].id

\* C8 as stated: after an import that passes column detection, the
\* imported transactions and the skip counter add up to the data lines; a
\* row whose amount is zero or unparseable counts in the skip counter.
C8_SkipCounterAccounts ==
    \A r \in Runs :
        PassedDetection(r) =>
            Len(r.newTransactions) + r.errors = Cardinality(DataIndexes(r))

\* C8 amended: after an import that passes column detection, the imported
\* transactions, the skip counter and the rows whose amount is zero or
\* unparseable add up to the data lines; such a row is skipped without
\* being imported and without being counted by the skip counter.
C8_EveryLineAccounted ==
    \A r \in Runs :
        PassedDetection(r) =>
            \E unusable \in {{i \in DataIndexes(r) : ~Usable(r, i)}} :
               /\ Len(r.newTransactions) + r.errors + Cardinality(unusable)
                      = Cardinality(DataIndexes(r))
               /\ \A i \in unusable : PushedFrom(r, i) = {}

\* A file with one usable row and one zero row was read: one transaction,
\* the skip counter at zero.
C8_Witness ==
    \E r \in Runs :
        /\ LinesOf(r) = <<HeaderFull, LineExample, LineZero>>
        /\ Len(r.newTransactions) = 1
        /\ r.errors = 0

\* C9: once column detection succeeds, the imported list holds, in file
\* order, exactly one transaction for each data line whose amount decodes
\* to a number other than zero, whatever the lines around it hold.
C9_OnePerUsableLineInOrder ==
    \A r \in Runs :
        PassedDetection(r) =>
            /\ \E usable \in {{i \in DataIndexes(r) : Usable(r, i)}} :
                   r.fromLine = Ascending(usable)
            /\ Len(r.newTransactions) = Len(r.fromLine)
            /\ \A k \in 1..Len(r.newTransactions) :
                   r.newTransactions[k].amount = MathAbs(AmountOf(r, r.fromLine[k]))

\* A usable row that follows a row with an unparseable amount was imported.
C9_Witness ==
    \E r \in Runs :
        /\ LinesOf(r) = <<HeaderFull, LineBadAmount, LineExample>>
        /\ r.fromLine = <<2>>
        /\ Len(r.newTransactions) = 1

\* The date cell of data line i.
DateCellOf(r, i) == At(CellsOf(r, i), Columns(r.headers).idxDate)

SameInput(r1, r2) ==
    /\ r1.csvText = r2.csvText
    /\ r1.movementTypes = r2.movementTypes
    /\ r1.centers = r2.centers

\* C10 as stated, of the latest run and every earlier one: two runs on the
\* same file content and the same catalogs give lists of the same length
\* whose elements agree on id, date, centerId, movementTypeId, detail,
\* amount and currency.
C10_RunsEqualFieldByField ==
    \A i \in 1..Len(runs), j \in {Len(runs)} :
        (i < j /\ SameInput(runs[i], runs[j])) =>
            runs[i].newTransactions = runs[j].newTransactions

\* C10 amended: two runs on the same file content and the same catalogs
\* give lists of the same length whose elements agree on centerId,
\* movementTypeId, detail, amount and currency, and on date when the row
\* has a date cell or both runs happen on the same day; the ids are fresh
\* in every run and differ.
C10_RunsEqualButIdAndDefaultDate ==
    \A i \in 1..Len(runs), j \in {Len(runs)} :
        (i < j /\ SameInput(runs[i], runs[j])) =>
            /\ Len(runs[i].newTransactions) = Len(runs[j].newTransactions)
            /\ \A k \in 1..Len(runs[i].newTransactions) :
                   LET a == runs[i].newTransactions[k]
                       b == runs[j].newTransactions[k]
                   IN /\ a.centerId = b.centerId
                      /\ a.movementTypeId = b.movementTypeId
                      /\ a.detail = b.detail
                      /\ a.amount = b.amount
                      /\ a.currency = b.currency
                      /\ (Truthy(DateCellOf(runs[i], runs[i].fromLine[k]))
                            \/ runs[i].today = runs[j].today) => a.date = b.date
                      /\ a.id # b.id

\* The same file was read on two days; a row without a date cell got two
\* dates and a row with one got the same date.
C10_Witness ==
    \E i, j \in 1..Len(runs) :
        /\ i < j
        /\ runs[i].today # runs[j].today
        /\ LinesOf(runs[i]) = <<HeaderFull, LineMiss, LineExample>>
        /\ Len(runs[i].newTransactions) = 2
        /\ runs[i].newTransactions[1].date # runs[j].newTransactions[1].date
        /\ runs[i].newTransactions[2].date = runs[j].newTransactions[2].date

-----------------------------------------------------------------------------
(* C11: transactions whose movement type is not in the catalog *)

Resolved(types, id) == \E i \in 1..Len(types) : types[i].id = id

\* The members of a set of ids as a sequence.
RECURSIVE IdsInOrder(_)
IdsInOrder(ids) ==
    IF ids = {} THEN <<>>
    ELSE LET id == CHOOSE x \in ids : TRUE
         IN <<id>> \o IdsInOrder(ids \ {id})

\* The catalog with one more EXPENSE entry for every movementTypeId of
\* txs that it does not resolve.
WithUnresolvedAsExpense(types, txs) ==
    LET missing == IdsInOrder({txs[i].movementTypeId : i \in 1..Len(txs)}
                                 \ {types[i].id : i \in 1..Len(types)})
    IN types \o [i \in 1..Len(missing) |->
                    [id |-> missing[i], name |-> <<>>,
                     category |-> EXPENSE, subCategory |-> Null]]

PdfTransactions == SelectSeq(transactions, LAMBDA t : StartsWith(t.date, report.month))

\* C11: a transaction whose movementTypeId matches no entry of the catalog
\* is aggregated exactly as a transaction of an EXPENSE type: the dashboard
\* totals per currency, the totals of the month groups, the chart series
\* and the two section totals of the report are the ones the same
\* transactions give under a catalog that lists every unmatched id as an
\* EXPENSE type; the other transactions are aggregated as before.
C11_UnresolvedCountsAsExpense ==
    \E asExpense \in {WithUnresolvedAsExpense(movementTypes, transactions)} :
        /\ (asExpense # movementTypes /\ activeTab = "dashboard") =>
             \E shown \in {DashFilteredTransactions(transactions, dashView)} :
                 /\ statsByCurrency(shown, movementTypes)
                      = statsByCurrency(shown, asExpense)
                 /\ chartData(shown, movementTypes,
                              dashView.filterMode, dashView.chartCurrency)
                      = chartData(shown, asExpense,
                                  dashView.filterMode, dashView.chartCurrency)
        /\ (asExpense # movementTypes /\ activeTab = "list") =>
             \E shown \in {ListFilteredTransactions(transactions, listView)} :
                 groupedTransactions(shown, movementTypes)
                     = groupedTransactions(shown, asExpense)
        /\ report.kind = "pdf" =>
             \E other \in {ReportOf(PdfTransactions, asExpense, report.month)} :
                 /\ report.totalIncome = other.totalIncome
                 /\ report.totalExpense = other.totalExpense

\* A document was saved for a month with a transaction of an unmatched
\* type, which the list shows in one of its month groups.
C11_Witness ==
    /\ report.kind = "pdf"
    /\ \E i \in 1..Len(transactions) :
           /\ ~Resolved(movementTypes, transactions[i].movementTypeId)
           /\ StartsWith(transactions[i].date, report.month)
           /\ \E j \in 1..Len(ListFilteredTransactions(transactions, listView)) :
                  ListFilteredTransactions(transactions, listView)[j].id
                      = transactions[i].id
           /\ Positive(report.totalExpense)

-----------------------------------------------------------------------------
(* C12: documents without a currency *)

\* The transactions with 'ARS' written into every document that has no
\* currency.
WithDefaultCurrency(txs) ==
    [i \in 1..Len(txs) |->
        IF txs[i].currency = Undefined
        THEN [txs[i] EXCEPT !.currency = Str_ARS]
        ELSE txs[i]]

\* The months and totals of the groups, without the transactions listed.
TotalsOfGroups(groups) ==
    [g \in 1..Len(groups) |->
        [month |-> groups[g].month, totals |-> groups[g].totals]]

\* C12: a transaction without a currency is counted under 'ARS' in the
\* per-currency totals of the dashboard, in the totals of the month groups
\* and in the chart series: each output is the one the same documents give
\* once 'ARS' is written into those that have no currency.
C12_AbsentCurrencyCountsAsARS ==
    /\ activeTab = "dashboard" =>
         \E shown \in {DashFilteredTransactions(transactions, dashView)} :
             /\ statsByCurrency(shown, movementTypes)
                  = statsByCurrency(WithDefaultCurrency(shown), movementTypes)
             /\ chartData(shown, movementTypes,
                          dashView.filterMode, dashView.chartCurrency)
                  = chartData(WithDefaultCurrency(shown), movementTypes,
                              dashView.filterMode, dashView.chartCurrency)
    /\ activeTab = "list" =>
         \E shown \in {ListFilteredTransactions(transactions, listView)} :
             TotalsOfGroups(groupedTransactions(shown, movementTypes))
                 = TotalsOfGroups(groupedTransactions(WithDefaultCurrency(shown),
                                                      movementTypes))

-----------------------------------------------------------------------------
(* Specification SpecReport: the report dialog of the transaction list over *)
(* the transactions the subscription has delivered                          *)

\* The sample documents, a third income of February and an expense of March
\* that the form marked as left out of the report.
ReportSamples ==
    SampleTransactions \cup
    {[id |-> "t8", date |-> Date_2024_02_01, centerId |-> "c1",
      movementTypeId |-> "ing_ofrendas", detail |-> Str_diezmo,
      amount |-> Amount_0_1, currency |-> Str_ARS],
     [id |-> "t9", date |-> Date_2024_03_02, centerId |-> "c1",
      movementTypeId |-> "egr_alquileres", detail |-> Str_alquiler,
      amount |-> Amount_400, currency |-> Str_ARS, excludeFromPdf |-> TRUE]}

\* Up to MaxTx of them, newest first.
ReportLedgers ==
    UNION {{txs \in [1..k -> ReportSamples] :
                /\ \A i, j \in 1..k : i # j => txs[i].id # txs[j].id
                /\ \A i \in 1..(k - 1) : StrLeq(txs[i + 1].date, txs[i].date)} :
           k \in 0..MaxTx}

InitReport ==
    /\ transactions \in ReportLedgers
    /\ movementTypes \in LedgerCatalogs
    /\ activeTab = "list"
    /\ listView = ListViewOnMount
    /\ dashView = DashViewOnMount
    /\ viewChanges = 0
    /\ pdfModal = PdfModalOnMount
    /\ report = NoReport
    /\ TokenizerIdle /\ AmountIdle /\ ClassifierIdle /\ ImportIdle
    /\ DecoderIdle /\ StoreIdle
    /\ CatalogIdle /\ DocsIdle /\ SessionIdle /\ UsersIdle

NextReport ==
    \/ openPdfModal
    \/ closePdfModal
    \/ setPdfTargetMonth
    \/ generatePDF

SpecReport == InitReport /\ [][NextReport]_vars

-----------------------------------------------------------------------------
(* Specification SpecSession: App's data-listeners effect over logins and   *)
(* logouts                                                                  *)

\* The listeners one run of initData opens, in the order it opens them.
Listeners == {"transactions", "centers", "movement_types", "users", "app_config"}

\* The function the effect returns: every unsub variable that holds a
\* function by now is called (`if(unsubTx) unsubTx();` and so on).
Cleanup(run) ==
    [run EXCEPT !.cleaned = TRUE, !.open = @ \ run.unsub]

\* The statements of initData after `await seedInitialData()`: the five
\* subscriptions are opened and their unsubscribe functions assigned.
Subscribed(run) ==
    [run EXCEPT !.pc = "subscribed", !.open = Listeners, !.unsub = Listeners]

\* The profile of the signed-in user the auth listener hands to App.
InitialAdmin == <<"u", "1">>

InitSession ==
    /\ \E seeded \in BOOLEAN :
           session = [currentUser |-> Null,
                      logins |-> 0,
                      seeded |-> seeded,
                      effects |-> <<>>,
                      loaded |-> {}]
    /\ movementTypes = Unused
    /\ TokenizerIdle /\ AmountIdle /\ ClassifierIdle /\ ImportIdle
    /\ LedgerIdle /\ DecoderIdle /\ StoreIdle
    /\ CatalogIdle /\ DocsIdle /\ UsersIdle

SessionOnly ==
    /\ UNCHANGED movementTypes
    /\ UNCHANGED <<tokVars, amtVars, clsVars, impVars, ledVars, decVars, stoVars>>
    /\ UNCHANGED <<catVars, docVars, usrVars>>

\* The auth listener reports a signed-in user: setCurrentUser(appUser). The
\* effect runs for the new value of currentUser: initData is called and is
\* suspended at getDocs, the first await of seedInitialData.
login ==
    /\ session.currentUser = Null
    /\ session.logins < MaxLogins
    /\ session' = [session EXCEPT
                      !.currentUser = InitialAdmin,
                      !.logins = @ + 1,
                      !.effects = Append(@, [pc |-> "getDocs",
                                             cleaned |-> FALSE,
                                             unsub |-> {},
                                             open |-> {}])]
    /\ SessionOnly

\* handleLogout: the auth listener reports no user, setCurrentUser(null);
\* React runs the cleanup of the effect run of the signed-in user, and the
\* effect for null, which starts nothing.
logout ==
    /\ session.currentUser # Null
    /\ session' = [session EXCEPT
                      !.currentUser = Null,
                      !.effects[Len(session.effects)] = Cleanup(@)]
    /\ SessionOnly

\* getDocs of seedInitialData resolves: with centers in the store the seed
\* is over and initData goes on to subscribe; with none, the batch is built
\* and initData is suspended at batch.commit().
getDocsResolves ==
    /\ \E i \in 1..Len(session.effects) :
           /\ session.effects[i].pc = "getDocs"
           /\ session' = [session EXCEPT
                             !.effects[i] = IF session.seeded
                                            THEN Subscribed(@)
                                            ELSE [@ EXCEPT !.pc = "commit"]]
    /\ SessionOnly

\* batch.commit() resolves: the store holds the initial data, and initData
\* goes on to subscribe.
commitResolves ==
    /\ \E i \in 1..Len(session.effects) :
           /\ session.effects[i].pc = "commit"
           /\ session' = [session EXCEPT
                             !.seeded = TRUE,
                             !.effects[i] = Subscribed(@)]
    /\ SessionOnly

\* getDocs or batch.commit() rejects: seedInitialData rethrows and the
\* catch block of initData sets initError; nothing is subscribed.
seedRejects ==
    /\ \E i \in 1..Len(session.effects) :
           /\ session.effects[i].pc \in {"getDocs", "commit"}
           /\ session' = [session EXCEPT !.effects[i].pc = "failed"]
    /\ SessionOnly

\* An open listener delivers a snapshot: its callback sets App's state.
snapshot ==
    /\ \E i \in 1..Len(session.effects), name \in Listeners :
           /\ name \in session.effects[i].open
           /\ name \notin session.loaded
           /\ session' = [session EXCEPT !.loaded = @ \cup {name}]
    /\ SessionOnly

NextSession ==
    \/ login
    \/ logout
    \/ getDocsResolves
    \/ commitResolves
    \/ seedRejects
    \/ snapshot

SpecSession == InitSession /\ [][NextSession]_vars

-----------------------------------------------------------------------------
(* Specification SpecUsers: deletions of users from the master-data screen  *)

\* The ids of the user documents: the seeded administrator and two more.
UserIds == {"admin1", "u2", "u3"}

\* The collections the session can start with: up to MaxUsers documents,
\* the administrator among them.
UserCollections ==
    {c \in SUBSET UserIds : "admin1" \in c /\ Cardinality(c) <= MaxUsers}

InitUsers ==
    /\ \E c \in UserCollections :
           users = [store |-> c,
                    list |-> c,
                    deleting |-> {},
                    alerted |-> FALSE]
    /\ movementTypes = Unused
    /\ TokenizerIdle /\ AmountIdle /\ ClassifierIdle /\ ImportIdle
    /\ LedgerIdle /\ DecoderIdle /\ StoreIdle
    /\ CatalogIdle /\ DocsIdle /\ SessionIdle

UsersOnly ==
    /\ UNCHANGED movementTypes
    /\ UNCHANGED <<tokVars, amtVars, clsVars, impVars, ledVars, decVars, stoVars>>
    /\ UNCHANGED <<catVars, docVars, sesVars>>

\* deleteUserHandler(id), from the button of a listed user: refused with an
\* alert when the list MasterData renders holds one user or none; otherwise,
\* on the user's OK, deleteDocument('users', id) is called and suspended at
\* its first await.
deleteUserHandler ==
    /\ \E id \in users.list, ok \in BOOLEAN :
           users' = IF Cardinality(users.list) <= 1
                    THEN [users EXCEPT !.alerted = TRUE]
                    ELSE IF ok
                    THEN [users EXCEPT !.alerted = FALSE,
                                       !.deleting = @ \cup {id}]
                    ELSE [users EXCEPT !.alerted = FALSE]
    /\ UsersOnly

\* deleteDocument goes on to deleteDoc(docRef) and the store applies it.
deleteDocument ==
    /\ \E id \in users.deleting :
           users' = [users EXCEPT !.store = @ \ {id},
                                  !.deleting = @ \ {id}]
    /\ UsersOnly

\* The listener on the users collection delivers a snapshot: setUsers.
UsersSnapshot ==
    /\ users.list # users.store
    /\ users' = [users EXCEPT !.list = users.store]
    /\ UsersOnly

NextUsers ==
    \/ deleteUserHandler
    \/ deleteDocument
    \/ UsersSnapshot

SpecUsers == InitUsers /\ [][NextUsers]_vars

-----------------------------------------------------------------------------
(* Specification SpecCatalog: edits of the movement-type catalog under the  *)
(* mounted view, whose aggregates are held by useMemo hooks                 *)

\* The dependency lists of the hooks: Dashboard statsByCurrency and
\* chartData, TransactionList groupedTransactions.
StatsDepsWithoutCatalog == {"filteredTransactions"}
StatsDeps == {"filteredTransactions", "movementTypes"}
ChartDeps == {"filteredTransactions", "movementTypes", "filterMode", "chartCurrency"}
GroupsDeps == {"filteredTransactions", "movementTypes"}

\* useMemo: the held value is kept unless a dependency changed.
UseMemo(held, fresh, deps, changed) ==
    IF deps \cap changed # {} THEN fresh ELSE held

\* The values the hooks of a view compute when it mounts.
MemoOnMount(tab, txs, types, lv, dv) ==
    IF tab = "dashboard"
    THEN [statsByCurrency |->
              statsByCurrency(DashFilteredTransactions(txs, dv), types),
          chartData |->
              chartData(DashFilteredTransactions(txs, dv), types,
                        dv.filterMode, dv.chartCurrency)]
    ELSE [groupedTransactions |->
              groupedTransactions(ListFilteredTransactions(txs, lv), types)]

\* The values the hooks hold after a render in which the props and state
\* named by changed are new.
MemoOnRender(held, changed, tab, txs, types, lv, dv) ==
    IF tab = "dashboard"
    THEN [statsByCurrency |->
              UseMemo(held.statsByCurrency,
                      statsByCurrency(DashFilteredTransactions(txs, dv), types),
                      StatsDeps, changed),
          chartData |->
              UseMemo(held.chartData,
                      chartData(DashFilteredTransactions(txs, dv), types,
                                dv.filterMode, dv.chartCurrency),
                      ChartDeps, changed)]
    ELSE [groupedTransactions |->
              UseMemo(held.groupedTransactions,
                      groupedTransactions(ListFilteredTransactions(txs, lv), types),
                      GroupsDeps, changed)]

\* The transaction lists the subscription can have delivered: up to MaxTx
\* of the sample documents, newest first.
CatalogLedgers ==
    UNION {{txs \in [1..k -> SampleTransactions] :
                /\ \A i, j \in 1..k : i # j => txs[i].id # txs[j].id
                /\ \A i \in 1..(k - 1) : StrLeq(txs[i + 1].date, txs[i].date)} :
           k \in 0..MaxTx}

InitCatalog ==
    /\ transactions \in CatalogLedgers
    /\ movementTypes = SeedTypes
    /\ activeTab \in {"dashboard", "list"}
    /\ listView = ListViewOnMount
    /\ dashView = ChartCurrencyEffect(transactions, DashViewOnMount)
    /\ memo = MemoOnMount(activeTab, transactions, movementTypes, listView, dashView)
    /\ viewChanges = 0
    /\ pdfModal = Unused
    /\ report = Unused
    /\ TokenizerIdle /\ AmountIdle /\ ClassifierIdle /\ ImportIdle
    /\ DecoderIdle /\ StoreIdle
    /\ DocsIdle /\ SessionIdle /\ UsersIdle

\* The snapshot of movement_types that follows a write: App re-renders the
\* mounted view with the new catalog.
MovementTypesSnapshot(types) ==
    /\ movementTypes' = types
    /\ memo' = MemoOnRender(memo, {"movementTypes"}, activeTab, transactions,
                            types, listView, dashView)
    /\ UNCHANGED <<transactions, activeTab, listView, dashView, viewChanges,
                   pdfModal, report>>
    /\ UNCHANGED <<tokVars, amtVars, clsVars, impVars, decVars, stoVars>>
    /\ UNCHANGED <<docVars, sesVars, usrVars>>

\* MasterData.saveTypeHandler on an existing type, with the other category
\* chosen in the dialog: the document keeps its id, name and sub-category.
saveTypeHandler ==
    \E i \in 1..Len(movementTypes), category \in {INCOME, EXPENSE} :
        /\ category # movementTypes[i].category
        /\ MovementTypesSnapshot([movementTypes EXCEPT ![i].category = category])

\* MasterData.deleteTypeHandler, confirmed.
deleteTypeHandler ==
    \E i \in 1..Len(movementTypes) :
        MovementTypesSnapshot(SelectSeq(movementTypes,
                                        LAMBDA m : m.id # movementTypes[i].id))

NextCatalog ==
    \/ saveTypeHandler
    \/ deleteTypeHandler

SpecCatalog == InitCatalog /\ [][NextCatalog]_vars

-----------------------------------------------------------------------------
(* Specification SpecStore: the configured currencies, the transaction form *)
(* and the writes of transactions to the store                              *)

Str_eur ==
    <<"e", "u", "r">>

\* constants: INITIAL_CURRENCIES
INITIAL_CURRENCIES == <<Str_ARS, Str_USD>>

\* What an administrator types as a new currency.
NewCurrencyInputs == {<<>>, Str_eur, Str_USD}

\* The currency cells of the row of an imported file.
ImportCurrencyCells == {Undefined, Str_eur, Str_USD}

FormClosed == [kind |-> "closed"]
NoInitialData == [kind |-> "none"]

\* useState(initialData?.currency || (currencies[0] || 'ARS'))
FormOnMount(initialData, configured) ==
    [kind |-> "open",
     initialData |-> initialData,
     currency |-> IF initialData # NoInitialData /\ Truthy(initialData.currency)
                  THEN initialData.currency
                  ELSE IF Len(configured) >= 1 /\ Truthy(configured[1])
                  THEN configured[1]
                  ELSE Str_ARS]

\* A write of one transaction, with the currencies configured when it is made.
WriteOf(by, currency) ==
    [by |-> by, currency |-> currency, configured |-> currencies]

InitStore ==
    /\ currencies = INITIAL_CURRENCIES
    /\ form = FormClosed
    /\ writes = <<>>
    /\ movementTypes = Unused
    /\ TokenizerIdle /\ AmountIdle /\ ClassifierIdle /\ ImportIdle /\ LedgerIdle
    /\ DecoderIdle
    /\ CatalogIdle /\ DocsIdle /\ SessionIdle /\ UsersIdle

StoreOnly ==
    /\ UNCHANGED movementTypes
    /\ UNCHANGED <<tokVars, amtVars, clsVars, impVars, ledVars, decVars>>
    /\ UNCHANGED <<catVars, docVars, sesVars, usrVars>>

\* MasterData.addCurrency, and the snapshot of the configuration that
\* follows: the form, if one is open, keeps its state.
addCurrency ==
    \E newCurrency \in NewCurrencyInputs :
        /\ Len(currencies) < MaxCurrencies
        /\ newCurrency # <<>> /\ ~Includes(currencies, newCurrency)
        /\ currencies' = Append(currencies, toUpperCase(newCurrency))
        /\ UNCHANGED <<form, writes>>
        /\ StoreOnly

\* MasterData.deleteCurrencyHandler, and the snapshot that follows.
deleteCurrencyHandler ==
    \E i \in 1..Len(currencies) :
        /\ currencies' = SelectSeq(currencies, LAMBDA cur : cur # currencies[i])
        /\ UNCHANGED <<form, writes>>
        /\ StoreOnly

\* The tab 'new' mounts an empty form.
openNewForm ==
    /\ form = FormClosed
    /\ form' = FormOnMount(NoInitialData, currencies)
    /\ UNCHANGED <<currencies, writes>>
    /\ StoreOnly

\* setEditingTransaction(t) mounts the form on a stored transaction.
setEditingTransaction ==
    \E i \in 1..Len(writes) :
        /\ form = FormClosed
        /\ form' = FormOnMount([kind |-> "tx", currency |-> writes[i].currency],
                               currencies)
        /\ UNCHANGED <<currencies, writes>>
        /\ StoreOnly

\* The select of the form offers the configured currencies.
setCurrency ==
    \E i \in 1..Len(currencies) :
        /\ form # FormClosed
        /\ form.currency # currencies[i]
        /\ form' = [form EXCEPT !.currency = currencies[i]]
        /\ UNCHANGED <<currencies, writes>>
        /\ StoreOnly

\* onCancel, setEditingTransaction(null)
cancelForm ==
    /\ form # FormClosed
    /\ form' = FormClosed
    /\ UNCHANGED <<currencies, writes>>
    /\ StoreOnly

\* TransactionForm.handleSubmit with onSave = handleSaveTransaction (new) or
\* handleUpdate (edit): saveDocument, then the form is unmounted.
handleSubmit ==
    /\ form # FormClosed
    /\ Len(writes) < MaxWrites
    /\ writes' = Append(writes,
                        WriteOf(IF form.initialData = NoInitialData
                                THEN "new" ELSE "edit", form.currency))
    /\ form' = FormClosed
    /\ UNCHANGED currencies
    /\ StoreOnly

\* A confirmed import of a file with one usable row: parseSheetCSV decodes
\* the currency cell, handleImportTransactions writes the batch.
handleImportTransactions ==
    \E cell \in ImportCurrencyCells :
        /\ form = FormClosed
        /\ Len(writes) < MaxWrites
        /\ writes' = Append(writes, WriteOf("import", DecodeCurrency(cell)))
        /\ UNCHANGED <<currencies, form>>
        /\ StoreOnly

NextStore ==
    \/ addCurrency
    \/ deleteCurrencyHandler
    \/ openNewForm
    \/ setEditingTransaction
    \/ setCurrency
    \/ cancelForm
    \/ handleSubmit
    \/ handleImportTransactions

SpecStore == InitStore /\ [][NextStore]_vars

-----------------------------------------------------------------------------
(* C13: the amount of an imported row *)

DecoderReturned(step) ==
    decoderCall.step = step /\ decoderResult # Pending

\* The amount cell of the line of a DecodeRow call: the second cell.
AmountCellOf(line) == At(MapSeq(trim, parseCSVLine(line, ";")), 1)

\* C13: the amount of every transaction a row produces is a finite number,
\* not negative, and is the absolute value of the number its amount cell
\* decodes to.
C13_AmountFiniteNonNegative ==
    (DecoderReturned("DecodeRow") /\ decoderResult.value # Skip) =>
        \E decoded \in {DecodeAmount(AmountCellOf(decoderCall.line))} :
            /\ decoderResult.value.amount.kind = "num"
            /\ ~decoderResult.value.amount.neg
            /\ decoderResult.value.amount.mant = decoded.mant
            /\ decoderResult.value.amount.scale = decoded.scale

-----------------------------------------------------------------------------
(* C15: the date of an imported row *)

SlashPositions(cell) == {i \in 1..Len(cell) : cell[i] = "/"}

\* A day or month written with two characters at least, zeros in front.
ZeroPadded(str) ==
    CASE Len(str) = 0 -> <<"0", "0">>
      [] Len(str) = 1 -> <<"0">> \o str
      [] OTHER -> str

\* The cell read as day/month/year at its first two slashes, as YYYY-MM-DD.
IsDayMonthYearOf(date, cell) ==
    \E i, j \in SlashPositions(cell) :
        /\ i < j
        /\ \A k \in SlashPositions(cell) : k = i \/ k >= j
        /\ date = trim(SubSeq(cell, j + 1, Len(cell))) \o <<"-">>
                      \o ZeroPadded(trim(SubSeq(cell, i + 1, j - 1))) \o <<"-">>
                      \o ZeroPadded(trim(SubSeq(cell, 1, i - 1)))

NoDate(cell) == cell = Undefined \/ cell = <<>>

\* C15 as stated: every date cell that contains '/' decodes to its
\* day/month/year reordered to YYYY-MM-DD with day and month zero-padded,
\* and an absent or empty cell decodes to the processing date.
C15_EverySlashDateReordered ==
    DecoderReturned("DecodeDate") =>
        /\ (~NoDate(decoderCall.cell) /\ SlashPositions(decoderCall.cell) # {})
               => IsDayMonthYearOf(decoderResult.value, decoderCall.cell)
        /\ NoDate(decoderCall.cell) => decoderResult.value = decoderCall.now

\* C15 amended: a date cell with exactly two '/' decodes to its
\* day/month/year reordered to YYYY-MM-DD with day and month zero-padded; a
\* cell with one '/' or with more than two is kept as it is; an absent or
\* empty cell decodes to the processing date.
C15_ThreePartDateReordered ==
    DecoderReturned("DecodeDate") =>
        /\ (~NoDate(decoderCall.cell)
                /\ Cardinality(SlashPositions(decoderCall.cell)) = 2)
               => IsDayMonthYearOf(decoderResult.value, decoderCall.cell)
        /\ (~NoDate(decoderCall.cell)
                /\ Cardinality(SlashPositions(decoderCall.cell)) \notin {0, 2})
               => decoderResult.value = decoderCall.cell
        /\ NoDate(decoderCall.cell) => decoderResult.value = decoderCall.now

C15_Witness ==
    /\ DecoderReturned("DecodeDate")
    /\ decoderCall.cell = Date_5_3_2024
    /\ decoderResult.value = Date_2024_03_05

-----------------------------------------------------------------------------
(* C16: the currency of an imported row *)

\* The letters A-Z of a string, in their order.
LettersOf(str) == SelectSeq(str, LAMBDA c : c \in AsciiUpper)

\* C16: the decoded currency is the upper-cased cell without its
\* characters other than the letters A-Z when exactly three letters are
\* left, and 'ARS' otherwise, also for an absent cell; so it is always three
\* letters A-Z.
C16_CurrencyThreeLettersOrARS ==
    DecoderReturned("DecodeCurrency") =>
        /\ (decoderCall.cell # Undefined
                /\ Len(LettersOf(toUpperCase(decoderCall.cell))) = 3)
               => decoderResult.value = LettersOf(toUpperCase(decoderCall.cell))
        /\ (decoderCall.cell = Undefined
                \/ Len(LettersOf(toUpperCase(decoderCall.cell))) # 3)
               => decoderResult.value = Str_ARS
        /\ Len(decoderResult.value) = 3
        /\ \A i \in 1..3 : decoderResult.value[i] \in AsciiUpper

C16_Witness ==
    /\ DecoderReturned("DecodeCurrency")
    /\ decoderCall.cell = <<"u", "$", "S", "u">>
    /\ decoderResult.value = <<"U", "S", "U">>

-----------------------------------------------------------------------------
(* C17: the delimiter of a file *)

Semicolons(line) == Cardinality({i \in 1..Len(line) : line[i] = ";"})
Commas(line) == Cardinality({i \in 1..Len(line) : line[i] = ","})

\* C17: the detected delimiter is ';' when the header line has at least as
\* many ';' as ',', and ',' otherwise.
C17_DelimiterByCount ==
    DecoderReturned("DetectDelimiter") =>
        /\ Semicolons(decoderCall.firstLine) >= Commas(decoderCall.firstLine)
               => decoderResult.value = ";"
        /\ Semicolons(decoderCall.firstLine) < Commas(decoderCall.firstLine)
               => decoderResult.value = ","

\* A tie with both characters present.
C17_Witness ==
    /\ DecoderReturned("DetectDelimiter")
    /\ Semicolons(decoderCall.firstLine) = 2
    /\ Commas(decoderCall.firstLine) = 2
    /\ decoderResult.value = ";"

-----------------------------------------------------------------------------
(* C18: the columns of a file *)

HasHeader(headers, name) == \E i \in 1..Len(headers) : headers[i] = name

\* The 0-based index idx is the one of a column called name.
PointsAt(headers, idx, name) ==
    idx + 1 \in 1..Len(headers) /\ headers[idx + 1] = name

\* C18: whatever the order of the columns, the amount is read from 'Monto2'
\* when the header has both 'Monto' and 'Monto2', and the classification
\* from 'Descripcion_Tipo_Movimiento' when the header has it.
C18_PreferredColumnUsed ==
    DecoderReturned("Columns") =>
        /\ (HasHeader(decoderCall.headers, H_monto)
                /\ HasHeader(decoderCall.headers, H_monto2))
               => PointsAt(decoderCall.headers, decoderResult.value.idxAmount,
                           H_monto2)
        /\ HasHeader(decoderCall.headers, H_descripcion_tipo_movimiento)
               => PointsAt(decoderCall.headers,
                           decoderResult.value.idxTypeDesc,
                           H_descripcion_tipo_movimiento)

-----------------------------------------------------------------------------
(* C14: the currency of a written transaction *)

\* C14: every transaction written to the store, by an import, by a manual
\* entry or by an edit, has a currency that is one of the currency codes
\* configured when it is written.
C14_WrittenCurrencyConfigured ==
    \A i \in 1..Len(writes) :
        Includes(writes[i].configured, writes[i].currency)

-----------------------------------------------------------------------------
(* C19: the sub-sections of the Expense section of the report *)

\* The sub-sections of a list of rows: each title row with the names on the
\* rows under it, up to the next title row.
SubSections(rows) ==
    LET titles == {i \in 1..Len(rows) : rows[i].kind = "header"}
        TitleRows == SelectSeq([i \in 1..Len(rows) |-> i], LAMBDA i : i \in titles)
        Until(i) == IF \E j \in titles : j > i
                    THEN (CHOOSE j \in titles :
                              j > i /\ \A k \in titles : k > i => k >= j) - 1
                    ELSE Len(rows)
    IN [s \in 1..Len(TitleRows) |->
            [title |-> rows[TitleRows[s]].content,
             names |-> [k \in 1..(Until(TitleRows[s]) - TitleRows[s]) |->
                            rows[TitleRows[s] + k].content]]]

TitlesOf(sections) == [s \in 1..Len(sections) |-> sections[s].title]

\* The sub-section an expense type belongs to.
SubSectionOf(m) ==
    IF \E g \in 1..3 : m.subCategory = expenseGroups[g]
    THEN m.subCategory ELSE Str_OTROS

Occurrences(seq, x) == Cardinality({i \in 1..Len(seq) : seq[i] = x})

ExpenseTypes == SelectSeq(movementTypes, LAMBDA m : m.category = EXPENSE)

\* Every expense type is on one row of its own sub-section and of no other,
\* and no row is the row of an income type.
EachExpenseTypeInItsSubSection(sections) ==
    /\ \A s \in 1..Len(sections) : \A k \in 1..Len(sections[s].names) :
           \E i \in 1..Len(ExpenseTypes) :
               /\ ExpenseTypes[i].name = sections[s].names[k]
               /\ SubSectionOf(ExpenseTypes[i]) = sections[s].title
    /\ \A i \in 1..Len(ExpenseTypes) : \E s \in 1..Len(sections) :
           /\ sections[s].title = SubSectionOf(ExpenseTypes[i])
           /\ Occurrences(sections[s].names, ExpenseTypes[i].name)
                  = Cardinality({j \in 1..Len(ExpenseTypes) :
                        /\ ExpenseTypes[j].name = ExpenseTypes[i].name
                        /\ SubSectionOf(ExpenseTypes[j])
                               = SubSectionOf(ExpenseTypes[i])})
           /\ \A t \in 1..Len(sections) :
                  sections[t].title = sections[s].title => t = s

\* C19 as stated: the Expense section of every report has the sub-sections
\* INVERSIONES, GASTOS ESPECIFICOS DE MINISTERIO, GASTOS GENERALES and
\* OTROS, in that order; every expense type is in exactly one, the one of
\* its sub-category or OTROS; no income type is in the section.
C19_FourSubSectionsInOrder ==
    report.kind = "pdf" =>
        \E sections \in {SubSections(report.expenseRows)} :
            /\ TitlesOf(sections) = expenseGroups \o <<Str_OTROS>>
            /\ EachExpenseTypeInItsSubSection(sections)

\* C19 amended: the three named sub-sections come in the fixed order, and
\* OTROS follows them exactly when some expense type has no sub-category or
\* one that is none of the three names.
C19_SubSectionsInOrder ==
    report.kind = "pdf" =>
        \E sections \in {SubSections(report.expenseRows)} :
            /\ TitlesOf(sections) =
                   IF \E i \in 1..Len(ExpenseTypes) :
                          SubSectionOf(ExpenseTypes[i]) = Str_OTROS
                   THEN expenseGroups \o <<Str_OTROS>>
                   ELSE expenseGroups
            /\ EachExpenseTypeInItsSubSection(sections)

\* A report of the edited catalog: two types called VARIOS under OTROS, one
\* without a sub-category and one with a sub-category in another spelling.
C19_Witness ==
    /\ report.kind = "pdf"
    /\ movementTypes = EditedTypes
    /\ \E sections \in {SubSections(report.expenseRows)} :
           /\ Len(sections) = 4
           /\ sections[1].names = <<Str_CONSTRUCCIONES>>
           /\ sections[4].title = Str_OTROS
           /\ sections[4].names = <<Str_VARIOS, Str_VARIOS>>

-----------------------------------------------------------------------------
(* C20: the totals of the Expense section of the report *)

\* The sum of the sums on the rows from..to, added in the order of the rows.
RECURSIVE SumOfRows(_, _, _, _)
SumOfRows(rows, from, to, acc) ==
    IF from > to THEN acc
    ELSE SumOfRows(rows, from + 1, to, Plus(acc, rows[from].sum))

\* The last row of the sub-section whose title row is row i.
LastRowOf(rows, i) ==
    IF \E j \in (i + 1)..Len(rows) : rows[j].kind = "header"
    THEN (CHOOSE j \in (i + 1)..Len(rows) :
              /\ rows[j].kind = "header"
              /\ \A k \in (i + 1)..(j - 1) : rows[k].kind # "header") - 1
    ELSE Len(rows)

\* The total of the sub-section whose title row is row i: the sum of the
\* monthly sums of its types.
SubSectionTotal(rows, i) == SumOfRows(rows, i + 1, LastRowOf(rows, i), Zero)

\* The sum of the totals of the sub-sections, in their order.
RECURSIVE SumOfSubSections(_, _, _)
SumOfSubSections(rows, at, acc) ==
    IF at > Len(rows) THEN acc
    ELSE IF rows[at].kind = "header"
    THEN SumOfSubSections(rows, at + 1, Plus(acc, SubSectionTotal(rows, at)))
    ELSE SumOfSubSections(rows, at + 1, acc)

\* C20: in every report each expense sub-section carries a total, the sum
\* of the monthly sums of its types, and the total of the Expense section is
\* the sum of the totals of the sub-sections, also when the month has
\* transactions of a type that is not in the catalog.
C20_ExpenseTotalsAddUp ==
    report.kind = "pdf" =>
        /\ \A i \in 1..Len(report.expenseRows) :
               report.expenseRows[i].kind = "header" =>
                   /\ report.expenseRows[i].shown
                   /\ report.expenseRows[i].sum
                          = SubSectionTotal(report.expenseRows, i)
        /\ report.totalExpense = SumOfSubSections(report.expenseRows, 1, Zero)

-----------------------------------------------------------------------------
(* C21: the Income section of the report *)

IncomeTypes == SelectSeq(movementTypes, LAMBDA m : m.category = INCOME)

\* The transactions of a type dated in the month of the report.
MonthTransactionsOf(id) ==
    SelectSeq(transactions,
              LAMBDA t : t.movementTypeId = id /\ SubSeq(t.date, 1, 7) = report.month)

\* One row per income type, in the order of the catalog, with the sum of
\* the month's transactions of the type, not shown when it is zero.
IncomeRowsPerType ==
    /\ Len(report.incomeRows) = Len(IncomeTypes)
    /\ \A i \in 1..Len(IncomeTypes) :
           /\ report.incomeRows[i].content = IncomeTypes[i].name
           /\ report.incomeRows[i].sum
                  = SumAmounts(MonthTransactionsOf(IncomeTypes[i].id), 1, Zero)
           /\ report.incomeRows[i].sum = Zero => ~report.incomeRows[i].shown

\* C21: the Income section of a report has one row per income type of the
\* catalog, with the sum of the month's transactions of the type, blank when
\* the sum is zero; the total of the section is the sum of the row sums;
\* transactions of other months count in no row and no total.
C21_IncomeRowsAndTotal ==
    report.kind = "pdf" =>
        /\ IncomeRowsPerType
        /\ report.totalIncome
               = SumOfRows(report.incomeRows, 1, Len(report.incomeRows), Zero)

-----------------------------------------------------------------------------
(* C22: the category of a movement type is read when aggregating *)

\* C22: after any sequence of catalog edits the aggregates the mounted view
\* holds are the ones the transactions give under the current catalog
\* alone, and no catalog edit changes a transaction.
C22_AggregatesFollowCatalog ==
    /\ [](memo = MemoOnMount(activeTab, transactions, movementTypes,
                             listView, dashView))
    /\ [][transactions' = transactions]_vars

\* OFRENDAS was changed from INCOME to EXPENSE: the amounts of its
\* transactions, which were income, count as expense.
C22_Witness ==
    /\ activeTab = "dashboard"
    /\ Len(movementTypes) = 3
    /\ movementTypes[1].id = "ing_ofrendas"
    /\ movementTypes[1].category = EXPENSE
    /\ Len(transactions) = 2
    /\ \A i \in 1..Len(transactions) :
           /\ transactions[i].movementTypeId = "ing_ofrendas"
           /\ transactions[i].currency = Str_ARS
    /\ Str_ARS \in DOMAIN memo.statsByCurrency
    /\ memo.statsByCurrency[Str_ARS].income = Zero
    /\ Positive(memo.statsByCurrency[Str_ARS].expense)
    /\ Positive(statsByCurrency(transactions, SeedTypes)[Str_ARS].income)

-----------------------------------------------------------------------------
(* C23: one sub-aggregate per month *)

\* The calendar months (YYYY-MM) of a list of transactions.
MonthsOf(txs) == {SubSeq(txs[i].date, 1, 7) : i \in 1..Len(txs)}

\* keys holds each month of txs once, and nothing else.
OnePerMonth(keys, txs) ==
    /\ Len(keys) = Cardinality(MonthsOf(txs))
    /\ {keys[k] : k \in 1..Len(keys)} = MonthsOf(txs)

OldestFirst(keys) ==
    \A k \in 1..(Len(keys) - 1) : StrLess(keys[k], keys[k + 1])
NewestFirst(keys) ==
    \A k \in 1..(Len(keys) - 1) : StrLess(keys[k + 1], keys[k])

GroupMonths ==
    LET groups == ShownGroups
    IN [g \in 1..Len(groups) |-> groups[g].month]
ChartMonths ==
    LET chart == ShownChart
    IN [k \in 1..Len(chart) |-> chart[k].sortKey]

\* C23 as stated: grouped by month, the month groups of the list and, in
\* mode 'all', the entries of the chart are one per calendar month of the
\* filtered transactions, none for another month, oldest month first.
C23_OnePerMonthChronological ==
    /\ activeTab = "list" =>
           /\ OnePerMonth(GroupMonths, ListFilteredTransactions(transactions, listView))
           /\ OldestFirst(GroupMonths)
    /\ (activeTab = "dashboard" /\ dashView.filterMode = "all") =>
           /\ OnePerMonth(ChartMonths, DashFilteredTransactions(transactions, dashView))
           /\ OldestFirst(ChartMonths)

\* C23 amended: the month groups of the list are one per calendar month of
\* the filtered transactions, newest month first; the entries of the chart
\* in mode 'all' are one per calendar month of the filtered transactions in
\* the chart currency, oldest month first.
C23_OnePerMonthInViewOrder ==
    /\ activeTab = "list" =>
           \E months \in {GroupMonths} :
               /\ OnePerMonth(months,
                              ListFilteredTransactions(transactions, listView))
               /\ NewestFirst(months)
    /\ (activeTab = "dashboard" /\ dashView.filterMode = "all") =>
           \E months \in {ChartMonths} :
               /\ OnePerMonth(months,
                              SelectSeq(DashFilteredTransactions(transactions, dashView),
                                        LAMBDA t : t.currency = dashView.chartCurrency))
               /\ OldestFirst(months)

\* The list shows two months of three transactions.
C23_Witness ==
    /\ activeTab = "list"
    /\ Len(ListFilteredTransactions(transactions, listView)) = 3
    /\ Len(ShownGroups) = 2

-----------------------------------------------------------------------------
(* C24: one read and at most one write per import *)

\* The completed runs that called onImport.
RunsThatWrote == {i \in 1..Len(runs) : runs[i].onImport # <<>>}

\* C24: every import operation reads its file once; a run calls onImport at
\* most once, and only with at least one candidate and after the user's OK;
\* the store is written once per such call and by no other step, so an
\* empty, invalid or declined import writes nothing.
C24_OneReadOneWriteAfterConfirm ==
    /\ [](/\ docs.readAsText = reading + Len(runs)
          /\ \A i \in 1..Len(runs) :
                 /\ Len(runs[i].onImport) <= 1
                 /\ runs[i].onImport # <<>> =>
                        /\ runs[i].outcome = "confirm"
                        /\ Len(runs[i].newTransactions) >= 1
                        /\ runs[i].confirmed
                        /\ runs[i].onImport[1] = runs[i].newTransactions
          /\ docs.commits = Cardinality(RunsThatWrote))
    /\ [][(docs'.transactions # docs.transactions \/ docs'.commits # docs.commits) =>
              /\ Len(runs') = Len(runs) + 1
              /\ runs'[Len(runs')].confirmed
              /\ Len(runs'[Len(runs')].newTransactions) >= 1
              /\ docs'.commits = docs.commits + 1]_vars

\* A declined import and a confirmed one of the same file: one write.
C24_Witness ==
    /\ Len(runs) = 2
    /\ runs[1].outcome = "confirm" /\ ~runs[1].confirmed
    /\ runs[2].confirmed
    /\ docs.readAsText = 2
    /\ docs.commits = 1

-----------------------------------------------------------------------------
(* C25: a confirmed import appends *)

\* C25: a confirmed import of N candidates adds N documents under ids the
\* collection did not hold, each the candidate with its id replaced by the
\* new one, and leaves every document it held as it was; two confirmed
\* imports of the same file add 2N documents.
C25_ConfirmedImportAppends ==
    /\ [][(Len(runs') = Len(runs) + 1 /\ runs'[Len(runs')].confirmed) =>
              LET ts == runs'[Len(runs')].newTransactions
                  before == docs.transactions
                  after == docs'.transactions
                  new == DOMAIN after \ DOMAIN before
              IN /\ Cardinality(new) = Len(ts)
                 /\ \A id \in DOMAIN before :
                        id \in DOMAIN after /\ after[id] = before[id]
                 /\ \A id \in new : after[id].id = id
                 /\ \A k \in 1..Len(ts) :
                        \E id \in new : after[id] = [ts[k] EXCEPT !.id = id]]_vars
    /\ []((Len(runs) >= 2 /\ runs[1].confirmed /\ runs[2].confirmed) =>
              Cardinality(DOMAIN docs.transactions)
                  >= 1 + 2 * Len(runs[1].newTransactions))
    /\ []((Len(runs) = 2 /\ runs[1].confirmed /\ runs[2].confirmed) =>
              Cardinality(DOMAIN docs.transactions)
                  = 1 + 2 * Len(runs[1].newTransactions))

\* The same file of two usable rows imported twice: five documents.
C25_Witness ==
    /\ Len(runs) = 2
    /\ runs[1].confirmed /\ runs[2].confirmed
    /\ Len(runs[1].newTransactions) = 2
    /\ Cardinality(DOMAIN docs.transactions) = 5
    /\ docs.transactions[1] = StoredBefore

-----------------------------------------------------------------------------
(* C26: a row under the five-column header *)

\* The run read a file whose header line is
\* Fecha;Monto;Detalle;Moneda;Descripcion_Tipo_Movimiento and that has data.
UnderFullHeader(r) ==
    /\ Len(LinesOf(r)) >= 2
    /\ LinesOf(r)[1] = HeaderFull

\* Transaction k of the run carries the decodings of the first, second,
\* fourth and fifth cell of data line i.
RowDecoded(r, k, i) ==
    LET cells == CellsOf(r, i)
        t == r.newTransactions[k]
        typeCell == At(cells, 4)
        typeDesc == IF Truthy(typeCell) THEN typeCell ELSE <<>>
    IN /\ t.date = DecodeDate(At(cells, 0), r.today)
       /\ t.amount = MathAbs(DecodeAmount(At(cells, 1)))
       /\ t.currency = DecodeCurrency(At(cells, 3))
       /\ t.movementTypeId = TypeIdOf(Classify(r.movementTypes, typeDesc),
                                      r.movementTypes)

\* With OFRENDAS in the catalog, the transaction of the example row is
\* {date 2024-01-01, amount 1500, currency ARS, movementTypeId its id}.
ExampleRowImported(r) ==
    \A i \in DataIndexes(r), k \in 1..Len(r.newTransactions) :
        (LinesOf(r)[i + 1] = LineExample /\ r.fromLine[k] = i) =>
            \E t \in {r.newTransactions[k]} :
                /\ t.date = <<"2", "0", "2", "4", "-", "0", "1", "-", "0", "1">>
                /\ t.amount = [kind |-> "num", neg |-> FALSE,
                               mant |-> 1500, scale |-> 0]
                /\ t.currency = Str_ARS
                /\ \A e \in CatalogEntries(r.movementTypes) :
                       e.name = Str_OFRENDAS => t.movementTypeId = e.id

\* C26 as stated: under that header every data row yields exactly one
\* transaction, which carries the decodings of its cells and the id of the
\* first center of the catalog; the example row imports as written.
C26_EveryRowOneTransaction ==
    \A r \in Runs :
        UnderFullHeader(r) =>
            /\ Len(r.newTransactions) = Len(LinesOf(r)) - 1
            /\ \A k \in 1..Len(r.newTransactions) :
                   /\ r.fromLine[k] = k
                   /\ RowDecoded(r, k, k)
                   /\ r.centers # <<>>
                   /\ r.newTransactions[k].centerId = r.centers[1].id
            /\ ExampleRowImported(r)

\* C26 amended: under that header every data row whose amount decodes to a
\* number other than zero yields exactly one transaction, and no other row
\* yields any; the transaction carries the decodings of its row's cells and
\* the id of the first center of the catalog, or 'default' when the catalog
\* has no center; the example row imports as written.
C26_EveryUsableRowOneTransaction ==
    \A r \in Runs :
        UnderFullHeader(r) =>
            /\ \E usable \in {{i \in DataIndexes(r) : Usable(r, i)}} :
                   r.fromLine = Ascending(usable)
            /\ Len(r.newTransactions) = Len(r.fromLine)
            /\ \A k \in 1..Len(r.newTransactions) :
                   /\ RowDecoded(r, k, r.fromLine[k])
                   /\ r.newTransactions[k].centerId
                          = (IF r.centers # <<>> THEN r.centers[1].id
                             ELSE "default")
            /\ ExampleRowImported(r)

\* The two-line file of the example was imported with the seeded catalogs.
C26_Witness ==
    \E r \in Runs :
        /\ LinesOf(r) = <<HeaderFull, LineExample>>
        /\ r.movementTypes = SeedTypes
        /\ r.centers = SeedCenters
        /\ Len(r.newTransactions) = 1
        /\ r.newTransactions[1].movementTypeId = "ing_ofrendas"
        /\ r.newTransactions[1].centerId = "c1"
        /\ r.confirmed

-----------------------------------------------------------------------------
(* C27: transactions left out of the report *)

\* The optional flag excludeFromPdf of the transaction is set.
ExcludedFromPdf(t) == "excludeFromPdf" \in DOMAIN t /\ t.excludeFromPdf

\* C27: the rows and the totals of a generated report are those of the
\* month's transactions whose excludeFromPdf flag is not set.
C27_ExcludedIgnoredByReport ==
    report.kind = "pdf" =>
        \E counted \in {SelectSeq(transactions,
                                  LAMBDA t : /\ StartsWith(t.date, report.month)
                                             /\ ~ExcludedFromPdf(t))} :
            \E without \in {ReportOf(counted, movementTypes, report.month)} :
                /\ report.incomeRows = without.incomeRows
                /\ report.totalIncome = without.totalIncome
                /\ report.expenseRows = without.expenseRows
                /\ report.totalExpense = without.totalExpense

-----------------------------------------------------------------------------
(* C28: no listener outlives its session *)

\* C28: once the cleanup of an effect run has been executed, no listener
\* that run opened is active, whenever its seeding resolves.
C28_NoListenerAfterCleanup ==
    \A i \in 1..Len(session.effects) :
        session.effects[i].cleaned => session.effects[i].open = {}

-----------------------------------------------------------------------------
(* C29: the last user *)

\* C29: whatever deletions are confirmed and however they interleave with
\* the snapshots of the user list, the users collection holds a document.
C29_UsersNeverEmptied ==
    users.store # {}

-----------------------------------------------------------------------------
(* C30: the configured currency codes *)

\* C30: after any additions and deletions the configured list holds no
\* code twice.
C30_NoDuplicateCurrency ==
    \A i, j \in 1..Len(currencies) :
        i # j => currencies[i] # currencies[j]

====
